---- MODULE Spec2Model ----
(***************************************************************************)
(* Model of the TravelApp video pipeline back end: the upload, retry and   *)
(* approve handlers of backend/src/routes/videos.ts, the pin creation      *)
(* handler of backend/src/routes/pins.ts, and the worker that drives a job *)
(* through its stages.                                                     *)
(*                                                                         *)
(* A nullable column or variable holds Null (the empty tuple) or Some(x).  *)
(* Text is a sequence of characters, so that trimming is computed.         *)
(***************************************************************************)
EXTENDS FiniteSets, Integers, Sequences, TLC

VARIABLES videos, jobs, files, nextVideo, nextJob, up, rt, wk,
          candidates, nextCand, pins, nextPin, ap, tasks, locationCache,
          geocodeCalls, pr, served, env, call, transcripts, nextTranscript, rd,
          run, pjob, stored, trips, nextTrip, tq, ui, polls, srv, sent

vars == <<videos, jobs, files, nextVideo, nextJob, up, rt, wk,
          candidates, nextCand, pins, nextPin, ap, tasks, locationCache,
          geocodeCalls, pr, served, env, call, transcripts, nextTranscript, rd,
          run, pjob, stored, trips, nextTrip, tq, ui, polls, srv, sent>>

jobVars == <<jobs, files, nextVideo, nextJob, up, rt, wk, nextCand>>
approveVars == <<pins, nextPin, ap, tasks, locationCache, geocodeCalls, pr, served,
                 env>>
readVars == <<transcripts, nextTranscript, rd>>
pipeVars == <<run, pjob, stored>>
tripVars == <<trips, nextTrip, tq>>
plannerVars == <<ui, polls, srv, sent>>
otherVars == <<pipeVars, tripVars, plannerVars>>

----------------------------------------------------------------------------
(* Bounds *)

\* uploads accepted in a behaviour (video and job ids are 1..MaxVideos)
MaxVideos == 1
\* the readings of the clock are 0..MaxClock
MaxClock == 1
\* approve and pin creation requests served in a behaviour
MaxRequests == 1
\* distinct ids in the candidate id array of a request
MaxIds == 2
\* stored candidates of the approval flow (ids 1..MaxCands)
MaxCands == 3
\* candidate rows the extraction stages insert in a behaviour
MaxExtracted == 1
\* length of a text given to a text function
MaxText == 2
\* transcript rows stored in a behaviour
MaxTranscripts == 2
\* candidates an extraction pass returns in a run
MaxPass == 2
\* trip rows inserted in a behaviour (their ids are 1..MaxTrips)
MaxTrips == 2
\* uploads the Planner page makes in a behaviour
MaxUploads == 2
\* poll requests of the Planner page in flight at a time
MaxPolls == 2

(* Values *)

Null == <<>>
Some(x) == <<x>>
IsNull(x) == x = Null
Val(x) == x[1]

\* undefined: a field or argument that is not there
Undefined == <<"undefined", "undefined">>

NoRow == [absent |-> TRUE]
\* No pure function is being applied.
NoCall == [fn |-> "none"]

VideoIds == 1..MaxVideos
JobIds == 1..MaxVideos
CandIds == 1..MaxCands
TripIds == {"t1", "t2"}
BadUuid == "bad"
UploadTrips == {"t1", BadUuid}
\* location_hint of an upload body: none, blank, or text with a trailing blank
UploadHints == {<<>>, <<<<" ">>>>, <<<<"a", " ">>>>}
BadVideoId == 0
Workers == {"w1", "w2"}
NoJob == 0

\* Time: new Date() and the data base's now() give a value that is not before
\* any time stamp stored so far.
Times == 0..MaxClock
Now == {t \in Times : \A j \in JobIds : jobs[j] # NoRow => jobs[j].updated_at <= t}

----------------------------------------------------------------------------
(* Text: a string is a sequence of characters *)

\* The characters trim() removes, as far as the texts here have them.
WhiteSpace == {" ", "\t"}

RECURSIVE TrimLeft(_)
TrimLeft(s) == IF s # <<>> /\ Head(s) \in WhiteSpace THEN TrimLeft(Tail(s)) ELSE s

RECURSIVE TrimRight(_)
TrimRight(s) ==
    IF s # <<>> /\ s[Len(s)] \in WhiteSpace
    THEN TrimRight(SubSeq(s, 1, Len(s) - 1)) ELSE s

Trim(s) == TrimRight(TrimLeft(s))

\* value?.trim(), and null when nothing is left
normalizeHint(value) ==
    IF IsNull(value) THEN Null
    ELSE IF Trim(Val(value)) = <<>> THEN Null ELSE Some(Trim(Val(value)))

\* x ?? ''
OrEmpty(x) == IF IsNull(x) \/ x = Undefined THEN <<>> ELSE Val(x)

RECURSIVE JoinParts(_)
JoinParts(parts) ==
    IF parts = <<>> THEN <<>>
    ELSE IF Len(parts) = 1 THEN parts[1]
    ELSE parts[1] \o <<",", " ">> \o JoinParts(Tail(parts))

\* A variant that does not drop the parts that are empty.
buildPlaceQuery_keepsEmpty(candidateName, addressHint, locationHint) ==
    JoinParts(<<Trim(candidateName), Trim(OrEmpty(addressHint)),
                Trim(OrEmpty(locationHint))>>)

buildPlaceQuery(candidateName, addressHint, locationHint) ==
    LET trimmed == <<Trim(candidateName), Trim(OrEmpty(addressHint)),
                     Trim(OrEmpty(locationHint))>>
        parts == SelectSeq(trimmed, LAMBDA part : Len(part) > 0)
    IN  JoinParts(parts)

----------------------------------------------------------------------------
(* Job store: the latest job of a video, by created_at descending, limit 1 *)

JobsOfIn(js, v) == {j \in JobIds : js[j] # NoRow /\ js[j].video_id = v}

LatestJobsIn(js, v) ==
    {j \in JobsOfIn(js, v) :
        \A k \in JobsOfIn(js, v) : js[k].created_at <= js[j].created_at}

JobsOf(v) == JobsOfIn(jobs, v)
LatestJobs(v) == LatestJobsIn(jobs, v)

----------------------------------------------------------------------------
(* POST /trips/:tripId/videos *)

UploadIdle == [pc |-> "idle", vid |-> 0, trip |-> BadUuid, hasFile |-> FALSE,
               hint |-> Null, status |-> 0, jobId |-> NoJob]

\* assignVideoId and multer's diskStorage run before the handler: the request
\* gets a fresh id and the file, when there is one, is stored under that id.
UploadReceive(trip, hasFile, location_hint) ==
    /\ up.pc \in {"idle", "done"}
    /\ nextVideo <= MaxVideos
    /\ up' = [pc |-> "handler", vid |-> nextVideo, trip |-> trip,
              hasFile |-> hasFile, hint |-> location_hint, status |-> 0,
              jobId |-> NoJob]
    /\ nextVideo' = nextVideo + 1
    /\ files' = IF hasFile THEN files \cup {nextVideo} ELSE files
    /\ UNCHANGED <<videos, jobs, nextJob, rt, wk, candidates, nextCand>>
    /\ UNCHANGED <<approveVars, call, readVars, otherVars>>

\* Validation and the insert into videos.
UploadInsertVideo(dbOk) ==
    /\ up.pc = "handler"
    /\ IF up.trip = BadUuid \/ ~up.hasFile
       THEN /\ up' = [UploadIdle EXCEPT !.pc = "done", !.status = 400]
            /\ UNCHANGED <<videos, files>>
       ELSE IF dbOk
       THEN /\ videos' = [videos EXCEPT ![up.vid] =
                            [trip_id |-> up.trip,
                             location_hint |-> normalizeHint(up.hint),
                             status |-> "queued"]]
            /\ up' = [up EXCEPT !.pc = "video_inserted"]
            /\ UNCHANGED files
       ELSE /\ files' = files \ {up.vid}
            /\ up' = [UploadIdle EXCEPT !.pc = "done", !.status = 500]
            /\ UNCHANGED videos
    /\ UNCHANGED <<jobs, nextVideo, nextJob, rt, wk, candidates, nextCand>>
    /\ UNCHANGED <<approveVars, call, readVars, otherVars>>

\* The insert into video_jobs and the response.  created_at and updated_at
\* default to now(): created_at is kept as the position in the order of the
\* inserts, which is all the selects use it for.
UploadInsertJob(dbOk, now) ==
    /\ up.pc = "video_inserted"
    /\ now \in Now
    /\ IF dbOk
       THEN /\ jobs' = [jobs EXCEPT ![nextJob] =
                          [video_id |-> up.vid, status |-> "queued", progress |-> 0,
                           error |-> Null, created_at |-> nextJob, updated_at |-> now]]
            /\ nextJob' = nextJob + 1
            /\ up' = [UploadIdle EXCEPT !.pc = "done", !.vid = up.vid, !.status = 201,
                                      !.jobId = nextJob]
       ELSE /\ up' = [UploadIdle EXCEPT !.pc = "done", !.status = 500]
            /\ UNCHANGED <<jobs, nextJob>>
    /\ UNCHANGED <<videos, files, nextVideo, rt, wk, candidates, nextCand>>
    /\ UNCHANGED <<approveVars, call, readVars, otherVars>>

----------------------------------------------------------------------------
(* POST /videos/:videoId/retry *)

\* job is the id of the handler's `job`, the row as the select returned it, and
\* seen its status; the response carries that row.
RetryIdle == [pc |-> "idle", vid |-> 0, job |-> NoJob, seen |-> Null, now |-> 0,
              status |-> 0]

\* Parameter check, now = new Date(), and the select of the latest job.
RetrySelect(v, dbOk, now) ==
    /\ rt.pc \in {"idle", "done"}
    /\ now \in Now
    /\ IF v = BadVideoId
       THEN rt' = [RetryIdle EXCEPT !.pc = "done", !.status = 400]
       ELSE IF ~dbOk
       THEN rt' = [RetryIdle EXCEPT !.pc = "done", !.status = 500]
       ELSE IF LatestJobs(v) = {}
       THEN rt' = [RetryIdle EXCEPT !.pc = "update_video", !.vid = v]
       ELSE \E j \in LatestJobs(v) :
              rt' = [RetryIdle EXCEPT !.pc = "update_job", !.vid = v, !.job = j,
                                      !.seen = Some(jobs[j].status), !.now = now]
    /\ UNCHANGED <<videos, jobs, files, nextVideo, nextJob, up, wk, candidates, nextCand>>
    /\ UNCHANGED <<approveVars, call, readVars, otherVars>>

RetryJobUpdate_keepsProgress(job) ==
    [job EXCEPT !.status = "queued", !.error = Null, !.updated_at = rt.now]

RetryJobUpdate(job) ==
    [job EXCEPT !.status = "queued", !.progress = 0, !.error = Null,
                !.updated_at = rt.now]

\* if (job) update video_jobs ... eq('id', job.id)
RetryUpdateJob(dbOk) ==
    /\ rt.pc = "update_job"
    /\ IF dbOk
       THEN /\ jobs' = [jobs EXCEPT ![rt.job] = RetryJobUpdate(jobs[rt.job])]
            /\ rt' = [rt EXCEPT !.pc = "update_video", !.now = 0]
       ELSE /\ rt' = [RetryIdle EXCEPT !.pc = "done", !.status = 500]
            /\ UNCHANGED jobs
    /\ UNCHANGED <<videos, files, nextVideo, nextJob, up, wk, candidates, nextCand>>
    /\ UNCHANGED <<approveVars, call, readVars, otherVars>>

\* update videos set status = 'queued'; its error is not looked at.
RetryUpdateVideo(dbOk) ==
    /\ rt.pc = "update_video"
    /\ videos' = IF dbOk /\ videos[rt.vid] # NoRow
                 THEN [videos EXCEPT ![rt.vid].status = "queued"]
                 ELSE videos
    /\ rt' = [RetryIdle EXCEPT !.pc = "done", !.job = rt.job, !.status = 200]
    /\ UNCHANGED <<jobs, files, nextVideo, nextJob, up, wk, candidates, nextCand>>
    /\ UNCHANGED <<approveVars, call, readVars, otherVars>>

----------------------------------------------------------------------------
(* The worker: claims a queued job and drives it through its stages *)

WorkerIdle == [job |-> NoJob, stage |-> "idle"]

SetVideoStatus(v, s) ==
    IF videos[v] # NoRow THEN [videos EXCEPT ![v].status = s] ELSE videos

\* Atomic claim: conditional update of status from queued to processing.
WorkerClaim(w, j) ==
    /\ wk[w].job = NoJob
    /\ jobs[j] # NoRow
    /\ jobs[j].status = "queued"
    /\ jobs' = [jobs EXCEPT ![j].status = "processing", ![j].progress = 0]
    /\ videos' = SetVideoStatus(jobs[j].video_id, "processing")
    /\ wk' = [wk EXCEPT ![w] = [job |-> j, stage |-> "media"]]
    /\ UNCHANGED <<files, nextVideo, nextJob, up, rt, candidates, nextCand>>
    /\ UNCHANGED <<approveVars, call, readVars, otherVars>>

\* After Preprocessor + Transcriber + OCR: progress 40.
WorkerMediaDone(w) ==
    /\ wk[w].stage = "media"
    /\ jobs' = [jobs EXCEPT ![wk[w].job].progress = 40]
    /\ wk' = [wk EXCEPT ![w].stage = "extract"]
    /\ UNCHANGED <<videos, files, nextVideo, nextJob, up, rt, candidates, nextCand>>
    /\ UNCHANGED <<approveVars, call, readVars, otherVars>>

\* A candidate row as the Candidate Extractor saves it: no coordinates yet.
ExtractedCandidate(v) ==
    [video_id |-> v, name |-> <<"a">>, address_hint |-> Null,
     latitude |-> Null, longitude |-> Null,
     places_query |-> Null, places_place_id |-> Null, places_name |-> Null,
     places_address |-> Null, places_raw |-> Null, places_failed |-> FALSE]

\* After Candidate Extraction: the candidates (zero or more) are saved,
\* progress 70.
WorkerExtractDone(w, n) ==
    /\ wk[w].stage = "extract"
    /\ n = 1 => nextCand <= MaxExtracted
    /\ jobs' = [jobs EXCEPT ![wk[w].job].progress = 70]
    /\ candidates' = IF n = 1
                      THEN [candidates EXCEPT ![nextCand] =
                              ExtractedCandidate(jobs[wk[w].job].video_id)]
                      ELSE candidates
    /\ nextCand' = nextCand + n
    /\ wk' = [wk EXCEPT ![w].stage = "resolve"]
    /\ UNCHANGED <<videos, files, nextVideo, nextJob, up, rt>>
    /\ UNCHANGED <<approveVars, call, readVars, otherVars>>

\* After the Place Resolver has enriched all candidates: done, progress 100.
WorkerResolveDone(w) ==
    /\ wk[w].stage = "resolve"
    /\ jobs' = [jobs EXCEPT ![wk[w].job].status = "done",
                            ![wk[w].job].progress = 100]
    /\ videos' = SetVideoStatus(jobs[wk[w].job].video_id, "done")
    /\ wk' = [wk EXCEPT ![w] = WorkerIdle]
    /\ UNCHANGED <<files, nextVideo, nextJob, up, rt, candidates, nextCand>>
    /\ UNCHANGED <<approveVars, call, readVars, otherVars>>

\* A fatal stage failure: failed, progress unchanged, error recorded.
WorkerFail(w) ==
    /\ wk[w].job # NoJob
    /\ jobs' = [jobs EXCEPT ![wk[w].job].status = "failed",
                            ![wk[w].job].error = Some("error")]
    /\ videos' = SetVideoStatus(jobs[wk[w].job].video_id, "failed")
    /\ wk' = [wk EXCEPT ![w] = WorkerIdle]
    /\ UNCHANGED <<files, nextVideo, nextJob, up, rt, candidates, nextCand>>
    /\ UNCHANGED <<approveVars, call, readVars, otherVars>>

----------------------------------------------------------------------------
(* Pins table.  latitude and longitude are NOT NULL columns. *)

\* origin and lookup are not columns: origin is the candidate the row was
\* built from (0 for a pin sent by the client), lookup tells whether a places
\* lookup supplied its coordinates.
PinRow(id, r) ==
    [id |-> id, trip_id |-> r.trip_id, name |-> r.name, latitude |-> r.latitude,
     longitude |-> r.longitude, place_id |-> r.place_id, notes |-> r.notes,
     origin |-> r.origin, lookup |-> r.lookup]

PinsAccepted(rows) ==
    \A i \in 1..Len(rows) : ~IsNull(rows[i].latitude) /\ ~IsNull(rows[i].longitude)

InsertedPins(rows) == {PinRow(nextPin + i - 1, rows[i]) : i \in 1..Len(rows)}

\* The rows of a set in the order of their ids (the order of the select).
RECURSIVE InIdOrder(_)
InIdOrder(S) ==
    IF S = {} THEN <<>>
    ELSE LET m == CHOOSE x \in S : \A y \in S : x <= y
         IN  <<m>> \o InIdOrder(S \ {m})

Range(f) == {f[x] : x \in DOMAIN f}

----------------------------------------------------------------------------
(* POST /videos/:videoId/approve *)

StoredVideos == {1, 2}
UnknownVideo == 3
UnknownCand == MaxCands + 1
BadCandId == 0
SubmittedIds == CandIds \cup {UnknownCand, BadCandId}

ApproveIdle == [pc |-> "idle", vid |-> 0, trip_id |-> "",
                locationHint |-> Null, status |-> 0, createdPinCount |-> 0,
                created |-> {}]

\* const noteParts = ['from video']; if (placeAddress) noteParts.push(...)
\* and noteParts.join(' -- ') (the separator is a dash between two blanks)
Notes(placeAddress) ==
    IF IsNull(placeAddress) \/ Val(placeAddress) = <<>>
    THEN <<"from video">>
    ELSE <<"from video">> \o <<" ", "--", " ">> \o Val(placeAddress)

\* The local variables of one callback of the map over the candidates.
NewTask(candidate) ==
    [pc |-> "init", candidate |-> candidate,
     latitude |-> candidate.latitude, longitude |-> candidate.longitude,
     placeId |-> <<>>, placeName |-> Null, placeAddress |-> Null,
     placesRaw |-> Null, locationBias |-> Null, url |-> Null, place |-> Null,
     pin |-> Null]

\* A variant that selects by id only.
SelectCandidates_anyVideo(v, ids) ==
    {c \in CandIds : candidates[c] # NoRow /\ c \in Range(ids)}

\* select * from video_candidates where video_id = v and id in ids
SelectCandidates(v, ids) ==
    {c \in CandIds : /\ candidates[c] # NoRow
                     /\ candidates[c].video_id = v
                     /\ c \in Range(ids)}

\* Parameter and body checks, the select of the video and of the candidates
\* (eq video_id, in candidateIds), and the start of Promise.all.
ApproveFetch(v, ids, videoOk, candidatesOk) ==
    /\ ap.pc \in {"idle", "done"}
    /\ DOMAIN tasks = {}
    /\ served < MaxRequests
    /\ served' = served + 1
    /\ IF v = BadVideoId \/ BadCandId \in Range(ids)
       THEN /\ ap' = [ApproveIdle EXCEPT !.pc = "done", !.status = 400]
            /\ tasks' = <<>>
       ELSE IF ids = <<>>
       THEN /\ ap' = [ApproveIdle EXCEPT !.pc = "done", !.status = 200]
            /\ tasks' = <<>>
       ELSE IF ~videoOk \/ v \notin StoredVideos
       THEN /\ ap' = [ApproveIdle EXCEPT !.pc = "done", !.status = 404]
            /\ tasks' = <<>>
       ELSE IF ~candidatesOk
       THEN /\ ap' = [ApproveIdle EXCEPT !.pc = "done", !.status = 500]
            /\ tasks' = <<>>
       ELSE LET found == SelectCandidates(v, ids)
            IN  /\ ap' = [ApproveIdle EXCEPT !.pc = "tasks", !.vid = v,
                            !.trip_id = videos[v].trip_id,
                            !.locationHint = normalizeHint(videos[v].location_hint)]
                /\ tasks' = [c \in found |-> NewTask(candidates[c])]
    /\ locationCache' = <<>>
    /\ geocodeCalls' = 0
    /\ UNCHANGED <<videos, candidates, pins, nextPin, pr, env>>
    /\ UNCHANGED <<jobVars, call, readVars, otherVars>>

PLACES_BIAS_RADIUS_METERS == 50000

\* The search parameters of the text search url; a parameter that is not set
\* is Null.
buildPlacesTextSearchUrl_alwaysRadius(query, apiKey, locationBias) ==
    [query |-> query, key |-> apiKey,
     location |-> IF IsNull(locationBias) THEN Null
                  ELSE Some(<<Val(locationBias).lat, Val(locationBias).lng>>),
     radius |-> Some(PLACES_BIAS_RADIUS_METERS)]

buildPlacesTextSearchUrl(query, apiKey, locationBias) ==
    [query |-> query, key |-> apiKey,
     location |-> IF IsNull(locationBias) THEN Null
                  ELSE Some(<<Val(locationBias).lat, Val(locationBias).lng>>),
     radius |-> IF IsNull(locationBias) THEN Null
                ELSE Some(PLACES_BIAS_RADIUS_METERS)]

\* The url fetchPlaceForCandidate fetches; without an API key it fetches none.
PlacesUrl(candidate, locationHint, locationBias) ==
    IF ~env.apiKey THEN Null
    ELSE Some(buildPlacesTextSearchUrl(
                 buildPlaceQuery(candidate.name, candidate.address_hint, locationHint),
                 "key", locationBias))

\* The callback reads its bias point and calls fetchPlaceForCandidate.
CallPlaces(t, locationBias) ==
    [t EXCEPT !.pc = "place", !.locationBias = locationBias,
              !.url = PlacesUrl(t.candidate, ap.locationHint, locationBias)]

CacheHas(h) == h \in DOMAIN locationCache
CacheGet(cache, h) == IF h \in DOMAIN cache THEN cache[h] ELSE Null
CacheSet(h, value) ==
    [x \in DOMAIN locationCache \cup {h} |-> IF x = h THEN value ELSE locationCache[x]]

\* A callback runs up to its first await: with a hint that the cache does not
\* have it calls geocodeLocationHint, otherwise it calls fetchPlaceForCandidate.
TaskBegin(c) ==
    /\ ap.pc \in {"tasks", "done"}
    /\ c \in DOMAIN tasks
    /\ tasks[c].pc = "init"
    /\ IF ~IsNull(ap.locationHint) /\ ~CacheHas(Val(ap.locationHint))
       THEN /\ tasks' = [tasks EXCEPT ![c].pc = "geocode"]
            /\ geocodeCalls' = geocodeCalls + 1
       ELSE /\ tasks' = [tasks EXCEPT ![c] =
                           CallPlaces(@, IF IsNull(ap.locationHint) THEN Null
                                         ELSE CacheGet(locationCache,
                                                       Val(ap.locationHint)))]
            /\ UNCHANGED geocodeCalls
    /\ UNCHANGED <<videos, candidates, pins, nextPin, ap, locationCache, pr, env>>
    /\ UNCHANGED <<served, jobVars, call, readVars, otherVars>>

\* No continuation runs before the map has started every callback.
AllBegun == \A c \in DOMAIN tasks : tasks[c].pc # "init"

\* A rejected callback rejects Promise.all: the handler's catch answers 500.
Rejected == IF ap.pc = "tasks" THEN [ap EXCEPT !.pc = "done", !.status = 500]
            ELSE ap

\* Once the response is sent nothing looks at a callback's outcome any more.
Settle(ts, c, t) ==
    IF ap.pc = "tasks" THEN [ts EXCEPT ![c] = t]
    ELSE [x \in DOMAIN ts \ {c} |-> ts[x]]

\* The ways an external call can end: a usable answer, no answer (not ok, no
\* result), or fetch throws.  Without an API key no call is made.
Outcomes == {"ok", "none", "throw"}
Possible(outcome) == env.apiKey \/ outcome = "none"

\* What geocodeLocationHint returns
Geocoded(outcome) == IF outcome = "ok" THEN Some([lat |-> 3, lng |-> 3]) ELSE Null

\* geocodeLocationHint returns: the cache is set and read, and
\* fetchPlaceForCandidate is called.
TaskGeocoded(c, outcome) ==
    /\ c \in DOMAIN tasks
    /\ tasks[c].pc = "geocode"
    /\ AllBegun
    /\ Possible(outcome)
    /\ IF outcome = "throw"
       THEN /\ tasks' = Settle(tasks, c, [tasks[c] EXCEPT !.pc = "thrown"])
            /\ ap' = Rejected
            /\ UNCHANGED locationCache
       ELSE /\ locationCache' = CacheSet(Val(ap.locationHint), Geocoded(outcome))
            /\ tasks' = [tasks EXCEPT ![c] =
                           CallPlaces(@, CacheGet(locationCache',
                                                  Val(ap.locationHint)))]
            /\ UNCHANGED ap
    /\ UNCHANGED <<videos, candidates, pins, nextPin, geocodeCalls, pr, env>>
    /\ UNCHANGED <<served, jobVars, call, readVars, otherVars>>

\* The top result of the text search, as fetchPlaceForCandidate returns it.
PlaceResult == [place_id |-> <<"p">>, name |-> Some(<<"n">>),
                address |-> Some(<<"s">>), location |-> [lat |-> 2, lng |-> 2],
                raw |-> Some("json")]

\* What fetchPlaceForCandidate returns
Fetched(outcome) == IF outcome = "ok" THEN Some(PlaceResult) ELSE Null

\* A variant that leaves the coordinates of the row as they are stored.
WithPlace_keepsStored(t, place) ==
    IF IsNull(place)
    THEN [t EXCEPT !.pc = "update"]
    ELSE [t EXCEPT !.pc = "update", !.place = place,
                   !.placeId = Val(place).place_id,
                   !.placeName = Val(place).name,
                   !.placeAddress = Val(place).address,
                   !.placesRaw = Val(place).raw]

\* const place = ...; if (place) { latitude = place.location.lat; ... }
WithPlace(t, place) ==
    IF IsNull(place)
    THEN [t EXCEPT !.pc = "update"]
    ELSE [t EXCEPT !.pc = "update", !.place = place,
                   !.latitude = Some(Val(place).location.lat),
                   !.longitude = Some(Val(place).location.lng),
                   !.placeId = Val(place).place_id,
                   !.placeName = Val(place).name,
                   !.placeAddress = Val(place).address,
                   !.placesRaw = Val(place).raw]

\* fetchPlaceForCandidate returns; the locals are set and the update of the
\* candidate row is sent.
TaskPlaceFetched(c, outcome) ==
    /\ c \in DOMAIN tasks
    /\ tasks[c].pc = "place"
    /\ AllBegun
    /\ Possible(outcome)
    /\ IF outcome = "throw"
       THEN /\ tasks' = Settle(tasks, c, [tasks[c] EXCEPT !.pc = "thrown"])
            /\ ap' = Rejected
       ELSE /\ tasks' = [tasks EXCEPT ![c] = WithPlace(@, Fetched(outcome))]
            /\ UNCHANGED ap
    /\ UNCHANGED <<videos, candidates, pins, nextPin, locationCache, geocodeCalls,
                   pr, env>>
    /\ UNCHANGED <<served, jobVars, call, readVars, otherVars>>

debugUpdate(t) ==
    [places_query |-> Some(buildPlaceQuery(t.candidate.name, t.candidate.address_hint,
                                           ap.locationHint)),
     places_place_id |-> IF t.placeId = <<>> THEN Null ELSE Some(t.placeId),
     places_name |-> t.placeName,
     places_address |-> t.placeAddress,
     places_raw |-> t.placesRaw]

ApplyUpdate(row, u) ==
    [row EXCEPT !.places_query = u.places_query,
                !.places_place_id = u.places_place_id,
                !.places_name = u.places_name,
                !.places_address = u.places_address,
                !.places_raw = u.places_raw]

\* A variant that falls back to 0 for a missing coordinate.
TaskPin_defaultsCoords(c, t) ==
    Some([trip_id |-> ap.trip_id,
          name |-> IF IsNull(t.placeName) THEN t.candidate.name
                   ELSE Val(t.placeName),
          latitude |-> IF IsNull(t.latitude) THEN Some(0) ELSE t.latitude,
          longitude |-> IF IsNull(t.longitude) THEN Some(0) ELSE t.longitude,
          place_id |-> t.placeId, notes |-> Notes(t.placeAddress),
          origin |-> c, lookup |-> ~IsNull(t.place)])

\* The callback's result: null without both coordinates, else the pin.
TaskPin(c, t) ==
    IF IsNull(t.latitude) \/ IsNull(t.longitude)
    THEN Null
    ELSE Some([trip_id |-> ap.trip_id,
               name |-> IF IsNull(t.placeName) THEN t.candidate.name
                        ELSE Val(t.placeName),
               latitude |-> t.latitude, longitude |-> t.longitude,
               place_id |-> t.placeId, notes |-> Notes(t.placeAddress),
               origin |-> c, lookup |-> ~IsNull(t.place)])

\* The update of the candidate row returns (its error is not looked at) and
\* the callback returns its pin or null.
TaskUpdated(c, dbOk) ==
    /\ c \in DOMAIN tasks
    /\ tasks[c].pc = "update"
    /\ candidates' = IF dbOk
                     THEN [candidates EXCEPT ![c] = ApplyUpdate(@, debugUpdate(tasks[c]))]
                     ELSE candidates
    /\ tasks' = Settle(tasks, c, [tasks[c] EXCEPT !.pc = "done",
                                                  !.pin = TaskPin(c, tasks[c])])
    /\ UNCHANGED <<videos, pins, nextPin, ap, locationCache, geocodeCalls, pr, env>>
    /\ UNCHANGED <<served, jobVars, call, readVars, otherVars>>

\* pinsToInsert.filter(Boolean)
filteredPins ==
    LET kept == {c \in DOMAIN tasks : ~IsNull(tasks[c].pin)}
        order == InIdOrder(kept)
    IN  [i \in 1..Len(order) |-> Val(tasks[order[i]].pin)]

\* Promise.all has resolved: the insert into pins and the response.
ApproveInsert(dbOk) ==
    /\ ap.pc = "tasks"
    /\ \A c \in DOMAIN tasks : tasks[c].pc = "done"
    /\ IF filteredPins = <<>>
       THEN /\ ap' = [ApproveIdle EXCEPT !.pc = "done", !.status = 200]
            /\ UNCHANGED <<pins, nextPin>>
       ELSE IF dbOk /\ PinsAccepted(filteredPins)
       THEN /\ pins' = pins \cup InsertedPins(filteredPins)
            /\ nextPin' = nextPin + Len(filteredPins)
            /\ ap' = [ApproveIdle EXCEPT !.pc = "done", !.status = 200,
                         !.createdPinCount = Len(filteredPins),
                         !.created = {r.id : r \in InsertedPins(filteredPins)}]
       ELSE /\ ap' = [ApproveIdle EXCEPT !.pc = "done", !.status = 500]
            /\ UNCHANGED <<pins, nextPin>>
    /\ tasks' = <<>>
    /\ UNCHANGED <<videos, candidates, locationCache, geocodeCalls, pr, env>>
    /\ UNCHANGED <<served, jobVars, call, readVars, otherVars>>

----------------------------------------------------------------------------
(* POST /trips/:tripId/pins *)

\* The last response: createdPinCount is 0 when the body has none.
PinsIdle == [status |-> 0, createdPinCount |-> 0, error |-> Null]

\* res.status(status).json({ data: null, error: message })
PinsError(status, message) ==
    [PinsIdle EXCEPT !.status = status, !.error = Some(message)]

TripIdMessage == "tripId must be a valid UUID"
MismatchedMessage == "One or more candidates do not belong to trip"
MissingCoordsMessage == "One or more candidates are missing coordinates."
InvalidBodyMessage == "Invalid request body. Expected candidate_ids[] or pin fields."
\* error.message of a failed query
DbMessage == "error.message"

\* A variant that looks at the first of the candidates only.
missingCoords_firstOnly(found) ==
    {c \in found : /\ \A d \in found : c <= d
                    /\ (IsNull(candidates[c].latitude) \/ IsNull(candidates[c].longitude))}

\* candidates.filter(candidate => candidate.latitude == null || ...)
missingCoords(found) ==
    {c \in found : IsNull(candidates[c].latitude) \/ IsNull(candidates[c].longitude)}

\* A body whose candidate_ids is a non-empty array of uuids.  selectOk: neither
\* the select of the candidates nor the select of their videos gave an error.
\* The two selects and the insert are taken as one step: no handler writes the
\* trip of a video or the coordinates of a candidate in between.
PinsCreateFromCandidates(trip, ids, selectOk, insertOk) ==
    /\ ids # <<>>
    /\ BadCandId \notin Range(ids)
    /\ served < MaxRequests
    /\ served' = served + 1
    /\ LET found == {c \in CandIds : candidates[c] # NoRow /\ c \in Range(ids)}
           mismatched == {c \in found : videos[candidates[c].video_id].trip_id # trip}
           order == InIdOrder(found)
           pinsToInsert ==
               [i \in 1..Len(order) |->
                  LET candidate == candidates[order[i]]
                  IN  [trip_id |-> trip,
                       name |-> IF IsNull(candidate.places_name) THEN candidate.name
                                ELSE Val(candidate.places_name),
                       latitude |-> candidate.latitude,
                       longitude |-> candidate.longitude,
                       place_id |-> OrEmpty(candidate.places_place_id),
                       notes |-> Notes(candidate.places_address),
                       origin |-> order[i], lookup |-> FALSE]]
       IN  IF trip = BadUuid
           THEN pr' = PinsError(400, TripIdMessage) /\ UNCHANGED <<pins, nextPin>>
           ELSE IF ~selectOk
           THEN pr' = PinsError(500, DbMessage) /\ UNCHANGED <<pins, nextPin>>
           ELSE IF mismatched # {}
           THEN pr' = PinsError(400, MismatchedMessage) /\ UNCHANGED <<pins, nextPin>>
           ELSE IF missingCoords(found) # {}
           THEN pr' = PinsError(400, MissingCoordsMessage) /\ UNCHANGED <<pins, nextPin>>
           ELSE IF insertOk /\ PinsAccepted(pinsToInsert)
           THEN /\ pins' = pins \cup InsertedPins(pinsToInsert)
                /\ nextPin' = nextPin + Len(pinsToInsert)
                /\ pr' = [PinsIdle EXCEPT !.status = 201,
                                          !.createdPinCount = Len(pinsToInsert)]
           ELSE pr' = PinsError(500, DbMessage) /\ UNCHANGED <<pins, nextPin>>
    /\ UNCHANGED <<videos, candidates, ap, tasks, locationCache, geocodeCalls, env>>
    /\ UNCHANGED <<jobVars, call, readVars, otherVars>>

\* What a body can hold for a number field: nothing (Undefined), null, or a
\* number.
NaN == <<"NaN", "NaN">>

\* z.coerce.number(): Number(undefined) is NaN, Number(null) is 0
coerceNumber(x) == IF x = Undefined THEN NaN ELSE IF IsNull(x) THEN Some(0) ELSE x

NumberBetween(x, lo, hi) == x # NaN /\ lo <= Val(x) /\ Val(x) <= hi

\* Any other body: the pin fields.
PinsCreateManual(trip, latitude, longitude, insertOk) ==
    /\ served < MaxRequests
    /\ served' = served + 1
    /\ LET lat == coerceNumber(latitude)
           lng == coerceNumber(longitude)
           row == [trip_id |-> trip, name |-> <<"Dropped Pin">>, latitude |-> lat,
                   longitude |-> lng, place_id |-> <<>>, notes |-> Null,
                   origin |-> 0, lookup |-> FALSE]
       IN  IF trip = BadUuid
           THEN pr' = PinsError(400, TripIdMessage) /\ UNCHANGED <<pins, nextPin>>
           ELSE IF ~NumberBetween(lat, -90, 90) \/ ~NumberBetween(lng, -180, 180)
           THEN pr' = PinsError(400, InvalidBodyMessage) /\ UNCHANGED <<pins, nextPin>>
           ELSE IF insertOk /\ PinsAccepted(<<row>>)
           THEN /\ pins' = pins \cup InsertedPins(<<row>>)
                /\ nextPin' = nextPin + 1
                /\ pr' = [PinsIdle EXCEPT !.status = 201]
           ELSE pr' = PinsError(500, DbMessage) /\ UNCHANGED <<pins, nextPin>>
    /\ UNCHANGED <<videos, candidates, ap, tasks, locationCache, geocodeCalls, env>>
    /\ UNCHANGED <<jobVars, call, readVars, otherVars>>

----------------------------------------------------------------------------
(* /api/trips *)

Users == {"u1", "u2"}
\* A path id that is no uuid; the ids of the rows are 1..MaxTrips.
BadTripId == 0
TripIdsOfTable == 1..MaxTrips

\* The last response of the trips router; queried tells whether the handler
\* sent a query to the trips table.
TripsIdle == [route |-> "none", id |-> 0, status |-> 0, data |-> Null,
              error |-> Null, queried |-> FALSE]

TripsAnswer(route, id, status, data, error, queried) ==
    [route |-> route, id |-> id, status |-> status, data |-> data,
     error |-> error, queried |-> queried]

InitTripsIdle ==
    /\ trips = [t \in TripIdsOfTable |-> NoRow]
    /\ nextTrip = 1
    /\ tq = TripsIdle

\* z.string().uuid(): a string that names a user
IsUuidText(x) == x # Undefined /\ ~IsNull(x) /\ Val(x) \in Users

\* A variant whose title may be empty.
tripSchema_anyTitle(user_id, title) ==
    IsUuidText(user_id) /\ title # Undefined /\ ~IsNull(title)

\* tripSchema.safeParse(req.body).success
tripSchema(user_id, title) ==
    /\ IsUuidText(user_id)
    /\ title # Undefined /\ ~IsNull(title) /\ Len(Val(title)) >= 1

\* POST /api/trips
TripsCreate(user_id, title, dbOk) ==
    /\ IF ~tripSchema(user_id, title)
       THEN /\ tq' = TripsAnswer("post", 0, 400, Null, Some("parsed.error.flatten()"),
                                 FALSE)
            /\ UNCHANGED <<trips, nextTrip>>
       ELSE IF dbOk /\ nextTrip <= MaxTrips
       THEN /\ trips' = [trips EXCEPT ![nextTrip] =
                           [user_id |-> Val(user_id), title |-> Val(title)]]
            /\ nextTrip' = nextTrip + 1
            /\ tq' = TripsAnswer("post", 0, 201, Some(<<nextTrip>>), Null, TRUE)
       ELSE /\ tq' = TripsAnswer("post", 0, 500, Null, Some(DbMessage), TRUE)
            /\ UNCHANGED <<trips, nextTrip>>

\* The ids of the trips of a user, by created_at descending.
RECURSIVE TripsOfUser(_, _)
TripsOfUser(userId, n) ==
    IF n = 0 THEN <<>>
    ELSE (IF trips[n] # NoRow /\ trips[n].user_id = userId THEN <<n>> ELSE <<>>)
            \o TripsOfUser(userId, n - 1)

\* !userId
UserIdMissing(userId) == userId = Undefined \/ Val(userId) = ""

\* GET /api/trips?user_id=
TripsList(userId, dbOk) ==
    /\ IF UserIdMissing(userId)
       THEN tq' = TripsAnswer("list", 0, 400, Null, Some("user_id is required"), FALSE)
       ELSE IF dbOk /\ Val(userId) \in Users
       THEN tq' = TripsAnswer("list", 0, 200, Some(TripsOfUser(Val(userId), MaxTrips)),
                              Null, TRUE)
       ELSE tq' = TripsAnswer("list", 0, 500, Null, Some(DbMessage), TRUE)
    /\ UNCHANGED <<trips, nextTrip>>

\* GET /api/trips/:id; single() gives an error unless one row is found.
TripsGet(id, dbOk) ==
    /\ IF dbOk /\ id # BadTripId /\ trips[id] # NoRow
       THEN tq' = TripsAnswer("get", id, 200, Some(<<id>>), Null, TRUE)
       ELSE tq' = TripsAnswer("get", id, 404, Null, Some("Trip not found"), TRUE)
    /\ UNCHANGED <<trips, nextTrip>>

\* PUT /api/trips/:id
TripsUpdate(id, title, dbOk) ==
    /\ IF title # Undefined /\ (IsNull(title) \/ Len(Val(title)) < 1)
       THEN /\ tq' = TripsAnswer("put", id, 400, Null, Some("parsed.error.flatten()"),
                                 FALSE)
            /\ UNCHANGED trips
       ELSE IF dbOk /\ id # BadTripId /\ trips[id] # NoRow
       THEN /\ trips' = IF title = Undefined THEN trips
                        ELSE [trips EXCEPT ![id].title = Val(title)]
            /\ tq' = TripsAnswer("put", id, 200, Some(<<id>>), Null, TRUE)
       ELSE /\ tq' = TripsAnswer("put", id, 404, Null, Some("Trip not found"), TRUE)
            /\ UNCHANGED trips
    /\ UNCHANGED nextTrip

\* DELETE /api/trips/:id.  delete().eq('id', id) gives an error when the
\* query fails (an id that is no uuid, the database); deleting no row is none.
TripsDelete(id, dbOk) ==
    /\ IF dbOk /\ id # BadTripId
       THEN /\ trips' = [trips EXCEPT ![id] = NoRow]
            /\ tq' = TripsAnswer("delete", id, 204, Null, Null, TRUE)
       ELSE /\ tq' = TripsAnswer("delete", id, 404, Null, Some("Trip not found"), TRUE)
            /\ UNCHANGED trips
    /\ UNCHANGED nextTrip

----------------------------------------------------------------------------
(* The Planner page: upload, polling of the video, selection, approval *)

\* The state of the component.  videoId 0 is null; interval tells whether the
\* timer of the polling effect of the current videoId is running.
PlannerIdle ==
    [videoId |-> 0, videoJob |-> Null, videoCandidates |-> {},
     selectedCandidates |-> {}, hasAutoSelected |-> FALSE, isUploading |-> FALSE,
     errorMessage |-> FALSE, interval |-> FALSE]

InitPlannerIdle ==
    /\ ui = PlannerIdle
    /\ polls = {}
    /\ srv = <<>>
    /\ sent = Null

\* The server's side of a video: the status of its job and whether its
\* candidate has been extracted.  The candidate of video v has id v.
ServerVideo(status, extracted) == [status |-> status, extracted |-> extracted]
CandidatesOf(v) == IF v = 0 THEN {} ELSE {v}

\* What GET /videos/:videoId answers for video v at this moment.
PollOf(v) ==
    [vid |-> v, job |-> srv[v].status,
     candidates |-> IF srv[v].extracted THEN CandidatesOf(v) ELSE {}]

\* handleVideoUpload up to its await: the job, the candidates, the selection
\* and hasAutoSelected are reset.  The button is disabled while uploading.
UploadStarts ==
    /\ ~ui.isUploading
    /\ Len(srv) < MaxUploads
    /\ ui' = [ui EXCEPT !.isUploading = TRUE, !.errorMessage = FALSE,
                        !.videoJob = Null, !.videoCandidates = {},
                        !.selectedCandidates = {}, !.hasAutoSelected = FALSE]
    /\ UNCHANGED <<polls, srv, sent>>

\* uploadTripVideo returns.  With a videoId the polling effect of the old
\* videoId is cleaned up and the one of the new videoId runs: it polls once
\* and sets its interval.
UploadReturns(ok) ==
    /\ ui.isUploading
    /\ IF ok
       THEN /\ Cardinality(polls) < MaxPolls
            /\ srv' = Append(srv, ServerVideo("queued", FALSE))
            /\ ui' = [ui EXCEPT !.isUploading = FALSE, !.videoId = Len(srv) + 1,
                                !.interval = TRUE]
            /\ polls' = polls \cup {[vid |-> Len(srv) + 1, job |-> "queued",
                                     candidates |-> {}]}
       ELSE /\ ui' = [ui EXCEPT !.isUploading = FALSE, !.errorMessage = TRUE]
            /\ UNCHANGED <<polls, srv>>
    /\ UNCHANGED sent

\* The interval fires: poll() sends GET /videos/:videoId.
PollStarts ==
    /\ ui.videoId # 0
    /\ ui.interval
    /\ Cardinality(polls) < MaxPolls
    /\ polls' = polls \cup {PollOf(ui.videoId)}
    /\ UNCHANGED <<ui, srv, sent>>

IsTerminal(status) == status \in {"done", "failed"}

\* The auto-select effect, run after a render that changed its inputs.
AutoSelect(u) ==
    IF u.hasAutoSelected \/ u.videoCandidates = {} THEN u
    ELSE [u EXCEPT !.selectedCandidates = u.videoCandidates,
                   !.hasAutoSelected = TRUE]

\* getVideo returns inside poll(): ignored when the effect was cleaned up,
\* else the job and the candidates are set (and the interval cleared on done
\* or failed), or the error message is set.
PollReturns(p, ok) ==
    /\ p \in polls
    /\ polls' = polls \ {p}
    /\ ui' = IF p.vid # ui.videoId THEN ui
             ELSE IF ~ok THEN [ui EXCEPT !.errorMessage = TRUE]
             ELSE AutoSelect([ui EXCEPT !.videoJob = Some(p.job),
                                        !.videoCandidates = p.candidates,
                                        !.interval = @ /\ ~IsTerminal(p.job)])
    /\ UNCHANGED <<srv, sent>>

\* The job of a video moves on at the server.
ServerMoves(v) ==
    /\ v \in 1..Len(srv)
    /\ \/ /\ srv[v].status = "queued"
          /\ srv' = [srv EXCEPT ![v].status = "processing"]
       \/ /\ srv[v].status = "processing" /\ ~srv[v].extracted
          /\ srv' = [srv EXCEPT ![v].extracted = TRUE]
       \/ /\ srv[v].status = "processing" /\ srv[v].extracted
          /\ srv' = [srv EXCEPT ![v].status = "done"]
       \/ /\ srv[v].status = "processing"
          /\ srv' = [srv EXCEPT ![v].status = "failed"]
    /\ UNCHANGED <<ui, polls, sent>>

\* toggleCandidate of a candidate that is displayed
toggleCandidate(candidateId) ==
    /\ candidateId \in ui.videoCandidates
    /\ ui' = [ui EXCEPT !.selectedCandidates =
                 IF candidateId \in @ THEN @ \ {candidateId}
                 ELSE @ \cup {candidateId}]
    /\ UNCHANGED <<polls, srv, sent>>

\* handleApproveCandidates sends the selected ids for the current videoId.
handleApproveCandidates ==
    /\ ui.videoId # 0
    /\ ui.selectedCandidates # {}
    /\ sent' = Some([videoId |-> ui.videoId, ids |-> ui.selectedCandidates])
    /\ UNCHANGED <<ui, polls, srv>>

----------------------------------------------------------------------------
(* One run of the worker over a job, stage by stage *)

\* The job row the run writes, with the columns of the generative pass.
PipeJobQueued == [status |-> "queued", progress |-> 0, error |-> Null,
                  ollama_used |-> FALSE, ollama_fallback_reason |-> Null]

\* What the stages have persisted for the video.
StoredNothing == [transcript |-> FALSE, frames |-> FALSE, candidates |-> Null]

\* The run: its stage, the Transcriber and the Frame Text Reader, which of the
\* two completed first, and the candidates each extraction pass has returned.
RunIdle == [stage |-> "idle", useOllama |-> FALSE,
            transcriber |-> "idle", reader |-> "idle", first |-> "none",
            heuristic |-> <<>>, generative |-> <<>>, attempt |-> "none"]

InitPipeIdle ==
    /\ run = RunIdle
    /\ pjob = PipeJobQueued
    /\ stored = StoredNothing

InitOther == InitPipeIdle /\ InitTripsIdle /\ InitPlannerIdle

\* Case folding of the letters the names here have.
Lower(ch) == IF ch = "A" THEN "a" ELSE IF ch = "B" THEN "b" ELSE ch

CaseFold(s) == [i \in 1..Len(s) |-> Lower(s[i])]

\* Runs of whitespace become one blank.
RECURSIVE Collapse(_)
Collapse(s) ==
    IF Len(s) < 2 THEN s
    ELSE IF s[1] \in WhiteSpace /\ s[2] \in WhiteSpace THEN Collapse(Tail(s))
    ELSE IF s[1] \in WhiteSpace THEN <<" ">> \o Collapse(Tail(s))
    ELSE <<s[1]>> \o Collapse(Tail(s))

\* The name as duplicates are compared: case-insensitive, whitespace-normalized.
NameKey(name) == Collapse(Trim(CaseFold(name)))

SameName(a, b) == NameKey(a.name) = NameKey(b.name)

\* A variant that keeps the confidence of the candidate met first.
MergeTwo_keepsFirst(a, b) ==
    [a EXCEPT !.evidence = a.evidence \cup b.evidence]

\* Two duplicates become one: the higher confidence, the union of the evidence.
MergeTwo(a, b) ==
    [(IF b.confidence > a.confidence THEN b ELSE a)
        EXCEPT !.evidence = a.evidence \cup b.evidence]

RECURSIVE Dedupe(_, _)
Dedupe(acc, rest) ==
    IF rest = <<>> THEN acc
    ELSE LET c == Head(rest)
             hits == {i \in 1..Len(acc) : SameName(acc[i], c)}
         IN  Dedupe(IF hits = {} THEN Append(acc, c)
                    ELSE LET i == CHOOSE i \in hits : TRUE
                         IN  [acc EXCEPT ![i] = MergeTwo(acc[i], c)],
                    Tail(rest))

\* Ranking by confidence descending; equal confidences keep their order.
RECURSIVE RankByConfidence(_)
RankByConfidence(cs) ==
    IF cs = <<>> THEN <<>>
    ELSE LET top == CHOOSE i \in 1..Len(cs) :
                       /\ \A j \in 1..Len(cs) : cs[j].confidence <= cs[i].confidence
                       /\ \A j \in 1..(i - 1) : cs[j].confidence < cs[i].confidence
         IN  <<cs[top]>> \o
             RankByConfidence([j \in 1..(Len(cs) - 1) |->
                                 IF j < top THEN cs[j] ELSE cs[j + 1]])

\* The candidates of both passes are unioned, deduplicated and ranked.
MergeCandidates(heuristic, generative) ==
    RankByConfidence(Dedupe(<<>>, heuristic \o generative))

\* Names a pass can return: two that differ by case and whitespace only, and
\* a third one.
PassNames == {<<"a", " ", "b">>, <<"A", " ", " ", "B", " ">>, <<"c">>}
\* Confidences, in tenths
Confidences == {5, 9}

PassCandidates(method, snippet) ==
    [name : PassNames, confidence : Confidences, evidence : {{snippet}},
     method : {method}]

\* The lists of distinct candidates a pass can return
PassLists(pool) ==
    UNION {{l \in [1..n -> pool] : \A i, j \in 1..n : i # j => l[i] # l[j]} :
           n \in 0..MaxPass}

HeuristicLists == PassLists(PassCandidates("heuristic", "transcript"))
GenerativeLists == PassLists(PassCandidates("generative", "ocr"))

\* On pickup of a queued job: processing, progress 0.  useOllama is the
\* feature flag of the generative pass.
RunClaim(useOllama) ==
    /\ run.stage = "idle"
    /\ pjob.status = "queued"
    /\ pjob' = [pjob EXCEPT !.status = "processing", !.progress = 0]
    /\ run' = [RunIdle EXCEPT !.stage = "media", !.useOllama = useOllama]
    /\ UNCHANGED stored

TranscriberStarts ==
    /\ run.stage = "media"
    /\ run.transcriber = "idle"
    /\ run' = [run EXCEPT !.transcriber = "running"]
    /\ UNCHANGED <<pjob, stored>>

\* The Transcriber completes: the transcript is persisted.
TranscriberCompletes ==
    /\ run.stage = "media"
    /\ run.transcriber = "running"
    /\ run' = [run EXCEPT !.transcriber = "done",
                          !.first = IF @ = "none" THEN "transcriber" ELSE @]
    /\ stored' = [stored EXCEPT !.transcript = TRUE]
    /\ UNCHANGED pjob

ReaderStarts ==
    /\ run.stage = "media"
    /\ run.reader = "idle"
    /\ run' = [run EXCEPT !.reader = "running"]
    /\ UNCHANGED <<pjob, stored>>

\* The Frame Text Reader completes: the frame texts are persisted.
ReaderCompletes ==
    /\ run.stage = "media"
    /\ run.reader = "running"
    /\ run' = [run EXCEPT !.reader = "done",
                          !.first = IF @ = "none" THEN "reader" ELSE @]
    /\ stored' = [stored EXCEPT !.frames = TRUE]
    /\ UNCHANGED pjob

\* A variant that waits for the Transcriber only.
MediaComplete_transcriberOnly == run.transcriber = "done"

\* Both must complete before Candidate Extraction begins.
MediaComplete == run.transcriber = "done" /\ run.reader = "done"

\* After Preprocessor + Transcriber + OCR: progress 40, extraction begins.
RunMediaDone ==
    /\ run.stage = "media"
    /\ MediaComplete
    /\ pjob' = [pjob EXCEPT !.progress = 40]
    /\ run' = [run EXCEPT !.stage = "heuristic"]
    /\ UNCHANGED stored

\* The heuristic pass (mandatory) returns its candidates.
HeuristicPass(found) ==
    /\ run.stage = "heuristic"
    /\ run' = [run EXCEPT !.heuristic = found,
                          !.stage = IF run.useOllama THEN "generative" ELSE "merge"]
    /\ UNCHANGED <<pjob, stored>>

\* The ways the generative pass can end
GenerativeOutcomes == {"ok", "malformed", "non2xx", "timeout", "schema"}

\* A variant that keeps what a response that fails the schema holds.
GenerativeResult_keepsInvalid(outcome, output) ==
    IF outcome \in {"ok", "schema"} THEN output ELSE <<>>

\* What is kept of the output of the generative pass: all of it, or nothing.
GenerativeResult(outcome, output) ==
    IF outcome = "ok" THEN output ELSE <<>>

\* The generative pass (only attempted with the flag set) ends.  It fails
\* soft: a fallback reason is recorded and the run goes on.
GenerativePass(outcome, output) ==
    /\ run.stage = "generative"
    /\ run' = [run EXCEPT !.generative = GenerativeResult(outcome, output),
                          !.attempt = outcome, !.stage = "merge"]
    /\ pjob' = [pjob EXCEPT !.ollama_used = (outcome = "ok"),
                            !.ollama_fallback_reason =
                                IF outcome = "ok" THEN Null ELSE Some(outcome)]
    /\ UNCHANGED stored

\* After Candidate Extraction: the merged candidates are persisted,
\* progress 70, and place resolution begins.
RunExtractDone ==
    /\ run.stage = "merge"
    /\ stored' = [stored EXCEPT !.candidates =
                     Some(MergeCandidates(run.heuristic, run.generative))]
    /\ pjob' = [pjob EXCEPT !.progress = 70]
    /\ run' = [run EXCEPT !.stage = "resolve"]

\* After the Place Resolver has enriched all candidates: done, progress 100.
RunResolveDone ==
    /\ run.stage = "resolve"
    /\ pjob' = [pjob EXCEPT !.status = "done", !.progress = 100]
    /\ run' = [run EXCEPT !.stage = "ended"]
    /\ UNCHANGED stored

\* The stages in which a fatal failure can happen: unreadable media, or an
\* unhandled exception of a stage.
FatalStages == {"media", "heuristic", "merge", "resolve"}

\* A fatal stage failure: failed, progress unchanged, error recorded.
RunFail ==
    /\ run.stage \in FatalStages
    /\ pjob' = [pjob EXCEPT !.status = "failed", !.error = Some("error")]
    /\ run' = [run EXCEPT !.stage = "ended"]
    /\ UNCHANGED stored

PipeStep(A) ==
    /\ A
    /\ UNCHANGED <<videos, candidates, jobVars, approveVars, call, readVars, tripVars,
                   plannerVars>>

----------------------------------------------------------------------------

ReadIdle == [route |-> "none", vid |-> 0, fault |-> FALSE, status |-> 0,
             transcript |-> Null, text |-> Null]

\* No transcript row, no read answered.
InitRead ==
    /\ transcripts = {}
    /\ nextTranscript = 1
    /\ rd = ReadIdle

InitJobs ==
    /\ jobs = [j \in JobIds |-> NoRow]
    /\ files = {}
    /\ nextVideo = 1
    /\ nextJob = 1
    /\ up = UploadIdle
    /\ rt = RetryIdle
    /\ wk = [w \in Workers |-> WorkerIdle]
    /\ nextCand = 1

InitApproveIdle ==
    /\ pins = {}
    /\ nextPin = 1
    /\ ap = ApproveIdle
    /\ tasks = <<>>
    /\ locationCache = <<>>
    /\ geocodeCalls = 0
    /\ pr = PinsIdle
    /\ served = 0
    /\ InitRead

Init ==
    /\ videos = [v \in VideoIds |-> NoRow]
    /\ candidates = [c \in CandIds |-> NoRow]
    /\ InitJobs
    /\ InitApproveIdle
    /\ InitOther
    /\ env = [apiKey |-> FALSE]
    /\ call = NoCall

Next ==
    \/ \E trip \in UploadTrips, hasFile \in BOOLEAN, hint \in UploadHints :
          UploadReceive(trip, hasFile, hint)
    \/ \E dbOk \in BOOLEAN : UploadInsertVideo(dbOk)
    \/ \E dbOk \in BOOLEAN, now \in Times : UploadInsertJob(dbOk, now)
    \/ \E v \in VideoIds \cup {BadVideoId}, dbOk \in BOOLEAN, now \in Times :
          RetrySelect(v, dbOk, now)
    \/ \E dbOk \in BOOLEAN : RetryUpdateJob(dbOk)
    \/ \E dbOk \in BOOLEAN : RetryUpdateVideo(dbOk)
    \/ \E w \in Workers, j \in JobIds : WorkerClaim(w, j)
    \/ \E w \in Workers : WorkerMediaDone(w)
    \/ \E w \in Workers, n \in {0, 1} : WorkerExtractDone(w, n)
    \/ \E w \in Workers : WorkerResolveDone(w)
    \/ \E w \in Workers : WorkerFail(w)

\* Several worker instances against the same job queue.
Spec == Init /\ [][Next]_vars

\* The default deployment: a single worker process polls for queued jobs.
NextSingleWorker ==
    \/ \E trip \in UploadTrips, hasFile \in BOOLEAN, hint \in UploadHints :
          UploadReceive(trip, hasFile, hint)
    \/ \E dbOk \in BOOLEAN : UploadInsertVideo(dbOk)
    \/ \E dbOk \in BOOLEAN, now \in Times : UploadInsertJob(dbOk, now)
    \/ \E v \in VideoIds \cup {BadVideoId}, dbOk \in BOOLEAN, now \in Times :
          RetrySelect(v, dbOk, now)
    \/ \E dbOk \in BOOLEAN : RetryUpdateJob(dbOk)
    \/ \E dbOk \in BOOLEAN : RetryUpdateVideo(dbOk)
    \/ \E j \in JobIds : WorkerClaim("w1", j)
    \/ WorkerMediaDone("w1")
    \/ \E n \in {0, 1} : WorkerExtractDone("w1", n)
    \/ WorkerResolveDone("w1")
    \/ WorkerFail("w1")

SpecSingleWorker == Init /\ [][NextSingleWorker]_vars

----------------------------------------------------------------------------
(* The approval flow over videos whose run has finished *)

\* A candidate as a finished run leaves it: with coordinates, or without and
\* marked places_failed.
StoredCandidate(c, withCoords) ==
    [video_id |-> IF c <= 2 THEN 1 ELSE 2,
     name |-> <<"a">>, address_hint |-> IF c = 2 THEN Some(<<" ">>) ELSE Null,
     latitude |-> IF withCoords THEN Some(1) ELSE Null,
     longitude |-> IF withCoords THEN Some(1) ELSE Null,
     places_query |-> Null, places_place_id |-> Null, places_name |-> Null,
     places_address |-> Null, places_raw |-> Null,
     places_failed |-> ~withCoords]

InitApprove ==
    /\ \E hint \in {Null, Some(<<"a">>)} :
          videos = [v \in StoredVideos |->
                      [trip_id |-> IF v = 1 THEN "t1" ELSE "t2",
                       location_hint |-> IF v = 1 THEN hint ELSE Null,
                       status |-> "done"]]
    /\ candidates = [c \in CandIds |-> StoredCandidate(c, c % 2 = 1)]
    /\ InitJobs
    /\ InitApproveIdle
    /\ InitOther
    /\ env \in [apiKey : BOOLEAN]
    /\ call = NoCall

\* The id arrays a body can hold: arrays of distinct ids (in id order, the
\* order plays no part in the selects) and one array that repeats an id.
IdLists ==
    {InIdOrder(S) : S \in {T \in SUBSET SubmittedIds : Cardinality(T) <= MaxIds}}
        \cup {<<1, 1>>}

NextApprove ==
    \/ \E v \in StoredVideos \cup {UnknownVideo, BadVideoId}, ids \in IdLists,
          videoOk \in BOOLEAN, candidatesOk \in BOOLEAN :
          ApproveFetch(v, ids, videoOk, candidatesOk)
    \/ \E c \in CandIds : TaskBegin(c)
    \/ \E c \in CandIds, outcome \in Outcomes : TaskGeocoded(c, outcome)
    \/ \E c \in CandIds, outcome \in Outcomes : TaskPlaceFetched(c, outcome)
    \/ \E c \in CandIds, dbOk \in BOOLEAN : TaskUpdated(c, dbOk)
    \/ \E dbOk \in BOOLEAN : ApproveInsert(dbOk)
    \/ \E trip \in TripIds \cup {BadUuid}, ids \in IdLists, selectOk \in BOOLEAN,
          insertOk \in BOOLEAN :
          PinsCreateFromCandidates(trip, ids, selectOk, insertOk)
    \/ \E trip \in TripIds \cup {BadUuid}, latitude \in {Undefined, Null, Some(200), Some(1)},
          longitude \in {Undefined, Some(1)}, insertOk \in BOOLEAN :
          PinsCreateManual(trip, latitude, longitude, insertOk)

SpecApprove == InitApprove /\ [][NextApprove]_vars

----------------------------------------------------------------------------
(* The text functions, applied to texts of bounded length *)

Chars == {"a", " ", "\t"}
Texts == UNION {[1..n -> Chars] : n \in 0..MaxText}
OptionalTexts == {Some(t) : t \in Texts} \cup {Null, Undefined}

InitQuery ==
    /\ videos = [v \in VideoIds |-> NoRow]
    /\ candidates = [c \in CandIds |-> NoRow]
    /\ InitJobs
    /\ InitApproveIdle
    /\ InitOther
    /\ env = [apiKey |-> FALSE]
    /\ call \in [fn : {"buildPlaceQuery"}, candidateName : Texts,
                  addressHint : OptionalTexts, locationHint : OptionalTexts,
                  result : {Null}]

CallBuildPlaceQuery ==
    /\ call.fn = "buildPlaceQuery"
    /\ IsNull(call.result)
    /\ call' = [call EXCEPT !.result =
                   Some(buildPlaceQuery(call.candidateName, call.addressHint,
                                        call.locationHint))]
    /\ UNCHANGED <<videos, candidates, jobVars, approveVars, readVars, otherVars>>

NextQuery == CallBuildPlaceQuery

SpecQuery == InitQuery /\ [][NextQuery]_vars

----------------------------------------------------------------------------
(* Transcripts and the routes that read them *)

\* A row of video_transcripts.  created_at defaults to now(): it is kept as
\* the position in the order of the inserts.
TranscriptRow(id, v) ==
    [id |-> id, video_id |-> v, created_at |-> id,
     transcript |-> <<[start_ms |-> 0, end_ms |-> id, text |-> <<"a", " ">>]>>]

\* The transcriber of a run stores the transcript of the video.
TranscriberWrites(v) ==
    /\ nextTranscript <= MaxTranscripts
    /\ transcripts' = transcripts \cup {TranscriptRow(nextTranscript, v)}
    /\ nextTranscript' = nextTranscript + 1
    /\ UNCHANGED <<videos, candidates, jobVars, approveVars, call, rd, otherVars>>

TranscriptsOf(v) == {t \in transcripts : t.video_id = v}

\* .order('created_at', { ascending: false }).limit(1), then transcripts?.[0]
LatestTranscript(v) ==
    IF TranscriptsOf(v) = {} THEN Null
    ELSE Some(CHOOSE t \in TranscriptsOf(v) :
                 \A u \in TranscriptsOf(v) : u.created_at <= t.created_at)

\* .maybeSingle(): no row gives null, one row gives the row, more rows give an
\* error.
maybeSingle(rows) ==
    IF rows = {} THEN [error |-> FALSE, data |-> Null]
    ELSE IF Cardinality(rows) = 1
    THEN [error |-> FALSE, data |-> Some(CHOOSE t \in rows : TRUE)]
    ELSE [error |-> TRUE, data |-> Null]

RECURSIVE JoinLines(_)
JoinLines(lines) ==
    IF lines = <<>> THEN <<>>
    ELSE IF Len(lines) = 1 THEN lines[1]
    ELSE lines[1] \o <<"\n">> \o JoinLines(Tail(lines))

\* transcript.map(segment => `[${start}-${end}] ${text}`.trim()).join('\n')
transcriptText(transcript) ==
    JoinLines([i \in 1..Len(transcript) |->
                 Trim(<<"[", transcript[i].start_ms, "-", transcript[i].end_ms,
                        "]", " ">> \o transcript[i].text)])

\* GET /videos/:videoId.  fault: a select fails in the data base.
GetVideo(v, fault) ==
    /\ rd' = IF v = BadVideoId
             THEN [ReadIdle EXCEPT !.route = "video", !.vid = v, !.status = 400]
             ELSE IF v \notin DOMAIN videos \/ videos[v] = NoRow
             THEN [ReadIdle EXCEPT !.route = "video", !.vid = v, !.status = 404]
             ELSE IF fault
             THEN [ReadIdle EXCEPT !.route = "video", !.vid = v, !.fault = TRUE,
                                   !.status = 500]
             ELSE [ReadIdle EXCEPT !.route = "video", !.vid = v, !.status = 200,
                      !.transcript =
                          IF IsNull(LatestTranscript(v)) THEN Null
                          ELSE Some(Val(LatestTranscript(v)).transcript)]
    /\ UNCHANGED <<videos, candidates, jobVars, approveVars, call, transcripts,
                   nextTranscript, otherVars>>

\* GET /videos/:videoId/debug
GetDebug(v, fault) ==
    /\ rd' = IF v = BadVideoId
             THEN [ReadIdle EXCEPT !.route = "debug", !.vid = v, !.status = 400]
             ELSE IF v \notin DOMAIN videos \/ videos[v] = NoRow
             THEN [ReadIdle EXCEPT !.route = "debug", !.vid = v, !.status = 404]
             ELSE IF fault
             THEN [ReadIdle EXCEPT !.route = "debug", !.vid = v, !.fault = TRUE,
                                   !.status = 500]
             ELSE LET transcriptRow == maybeSingle(TranscriptsOf(v))
                      transcript == IF IsNull(transcriptRow.data) THEN Null
                                    ELSE Some(Val(transcriptRow.data).transcript)
                  IN  IF transcriptRow.error
                      THEN [ReadIdle EXCEPT !.route = "debug", !.vid = v,
                                            !.status = 500]
                      ELSE [ReadIdle EXCEPT !.route = "debug", !.vid = v,
                               !.status = 200, !.transcript = transcript,
                               !.text = IF IsNull(transcript) THEN Some(<<>>)
                                        ELSE Some(transcriptText(Val(transcript)))]
    /\ UNCHANGED <<videos, candidates, jobVars, approveVars, call, transcripts,
                   nextTranscript, otherVars>>

\* GET /videos/:videoId/transcript.txt (the video row is not looked up)
GetTranscriptTxt(v, fault) ==
    /\ rd' = IF v = BadVideoId
             THEN [ReadIdle EXCEPT !.route = "txt", !.vid = v, !.status = 400]
             ELSE IF fault
             THEN [ReadIdle EXCEPT !.route = "txt", !.vid = v, !.fault = TRUE,
                                   !.status = 500]
             ELSE LET transcriptRow == maybeSingle(TranscriptsOf(v))
                      transcript == IF IsNull(transcriptRow.data) THEN <<>>
                                    ELSE Val(transcriptRow.data).transcript
                  IN  IF transcriptRow.error
                      THEN [ReadIdle EXCEPT !.route = "txt", !.vid = v, !.status = 500]
                      ELSE [ReadIdle EXCEPT !.route = "txt", !.vid = v, !.status = 200,
                               !.text = Some(transcriptText(transcript))]
    /\ UNCHANGED <<videos, candidates, jobVars, approveVars, call, transcripts,
                   nextTranscript, otherVars>>

InitTranscripts ==
    /\ videos = [v \in StoredVideos |->
                   [trip_id |-> "t1", location_hint |-> Null, status |-> "done"]]
    /\ candidates = [c \in CandIds |-> NoRow]
    /\ InitJobs
    /\ InitApproveIdle
    /\ InitOther
    /\ env = [apiKey |-> FALSE]
    /\ call = NoCall

RequestedVideos == StoredVideos \cup {UnknownVideo, BadVideoId}

NextTranscripts ==
    \/ \E v \in StoredVideos : TranscriberWrites(v)
    \/ \E v \in RequestedVideos, fault \in BOOLEAN : GetVideo(v, fault)
    \/ \E v \in RequestedVideos, fault \in BOOLEAN : GetDebug(v, fault)
    \/ \E v \in RequestedVideos, fault \in BOOLEAN : GetTranscriptTxt(v, fault)

SpecTranscripts == InitTranscripts /\ [][NextTranscripts]_vars

----------------------------------------------------------------------------
(* The run of the worker, from pickup to done or failed *)

InitPipeline ==
    /\ videos = [v \in VideoIds |-> NoRow]
    /\ candidates = [c \in CandIds |-> NoRow]
    /\ InitJobs
    /\ InitApproveIdle
    /\ InitOther
    /\ env = [apiKey |-> FALSE]
    /\ call = NoCall

NextPipeline ==
    \/ \E useOllama \in BOOLEAN : PipeStep(RunClaim(useOllama))
    \/ PipeStep(TranscriberStarts)
    \/ PipeStep(TranscriberCompletes)
    \/ PipeStep(ReaderStarts)
    \/ PipeStep(ReaderCompletes)
    \/ PipeStep(RunMediaDone)
    \/ \E found \in HeuristicLists : PipeStep(HeuristicPass(found))
    \/ \E outcome \in GenerativeOutcomes, output \in GenerativeLists :
          PipeStep(GenerativePass(outcome, output))
    \/ PipeStep(RunExtractDone)
    \/ PipeStep(RunResolveDone)
    \/ PipeStep(RunFail)

SpecPipeline == InitPipeline /\ [][NextPipeline]_vars

----------------------------------------------------------------------------
(* The trips router on its own *)

TripsStep(A) ==
    /\ A
    /\ UNCHANGED <<videos, candidates, jobVars, approveVars, call, readVars, pipeVars,
                   plannerVars>>

InitTrips ==
    /\ videos = [v \in VideoIds |-> NoRow]
    /\ candidates = [c \in CandIds |-> NoRow]
    /\ InitJobs
    /\ InitApproveIdle
    /\ InitOther
    /\ env = [apiKey |-> FALSE]
    /\ call = NoCall

\* What a request can hold for user_id and for title
UserIdInputs == {Undefined, Some(""), Some("u1"), Some("u2"), Some(BadUuid)}
TitleInputs == {Undefined, Null, Some(<<>>), Some(<<"t">>), Some(<<"s">>)}
RequestedTrips == TripIdsOfTable \cup {BadTripId}

NextTrips ==
    \/ \E user_id \in UserIdInputs, title \in TitleInputs, dbOk \in BOOLEAN :
          TripsStep(TripsCreate(user_id, title, dbOk))
    \/ \E userId \in UserIdInputs, dbOk \in BOOLEAN : TripsStep(TripsList(userId, dbOk))
    \/ \E id \in RequestedTrips, dbOk \in BOOLEAN : TripsStep(TripsGet(id, dbOk))
    \/ \E id \in RequestedTrips, title \in TitleInputs, dbOk \in BOOLEAN :
          TripsStep(TripsUpdate(id, title, dbOk))
    \/ \E id \in RequestedTrips, dbOk \in BOOLEAN : TripsStep(TripsDelete(id, dbOk))

SpecTrips == InitTrips /\ [][NextTrips]_vars

----------------------------------------------------------------------------
(* The Planner page against a server whose jobs move on *)

PlannerStep(A) ==
    /\ A
    /\ UNCHANGED <<videos, candidates, jobVars, approveVars, call, readVars, pipeVars,
                   tripVars>>

InitPlanner ==
    /\ videos = [v \in VideoIds |-> NoRow]
    /\ candidates = [c \in CandIds |-> NoRow]
    /\ InitJobs
    /\ InitApproveIdle
    /\ InitOther
    /\ env = [apiKey |-> FALSE]
    /\ call = NoCall

NextPlanner ==
    \/ PlannerStep(UploadStarts)
    \/ \E ok \in BOOLEAN : PlannerStep(UploadReturns(ok))
    \/ PlannerStep(PollStarts)
    \/ \E p \in polls, ok \in BOOLEAN : PlannerStep(PollReturns(p, ok))
    \/ \E v \in 1..MaxUploads : PlannerStep(ServerMoves(v))
    \/ \E c \in 1..MaxUploads : PlannerStep(toggleCandidate(c))
    \/ PlannerStep(handleApproveCandidates)

SpecPlanner == InitPlanner /\ [][NextPlanner]_vars

----------------------------------------------------------------------------
(* Properties of the job life cycle *)

RetryWritesJob(j) == rt.pc = "update_job" /\ rt'.pc = "update_video" /\ rt.job = j
RetryActs == rt' # rt
JobRows(js) == {j \in JobIds : js[j] # NoRow}
IsReset(job) == job.status = "queued" /\ job.progress = 0 /\ job.error = Null
SameButUpdatedAt(a, b) == [a EXCEPT !.updated_at = 0] = [b EXCEPT !.updated_at = 0]

\* C3: within a run a job's status only moves queued -> processing -> done or
\* queued -> processing -> failed, done and failed are terminal, and only the
\* retry operation sets a status back to queued.
C3_StatusMonotonic ==
    [][\A j \in JobIds :
         (jobs[j] # NoRow /\ jobs'[j].status # jobs[j].status) =>
            \/ jobs[j].status = "queued" /\ jobs'[j].status = "processing"
            \/ jobs[j].status = "processing" /\ jobs'[j].status \in {"done", "failed"}
            \/ jobs'[j].status = "queued" /\ RetryWritesJob(j)]_vars

\* C4: no two worker instances are processing the same job at the same time.
C4_OneActiveProcessor ==
    \A w1, w2 \in Workers :
        (w1 # w2 /\ wk[w1].job # NoJob) => wk[w1].job # wk[w2].job

\* C5: a retry resets the latest job to queued, progress 0, error null, creates
\* no job row and leaves the candidate rows alone; a retry applied to a job and
\* video that a retry has already reset changes nothing but updated_at.
C5_RetryIdempotent ==
    [][/\ \A j \in JobIds : RetryWritesJob(j) =>
             /\ IsReset(jobs'[j])
             /\ jobs'[j].video_id = jobs[j].video_id
             /\ \A k \in JobIds \ {j} : jobs'[k] = jobs[k]
       /\ RetryActs =>
             /\ JobRows(jobs') = JobRows(jobs)
             /\ candidates' = candidates
             /\ \A j \in JobRows(jobs) :
                   IsReset(jobs[j]) => SameButUpdatedAt(jobs'[j], jobs[j])
             /\ \A v \in VideoIds :
                   (videos[v] # NoRow /\ videos[v].status = "queued") =>
                       videos'[v] = videos[v]]_vars

\* A retry has written the job of a video whose latest job it found failed, the
\* job is reset, and the candidates of the earlier run are still there.
C5_Witness ==
    /\ rt.pc = "update_video"
    /\ rt.seen = Some("failed")
    /\ IsReset(jobs[rt.job])
    /\ \E c \in CandIds : candidates[c] # NoRow /\ candidates[c].video_id = rt.vid

\* C6: every video row has exactly one job row, once the upload that created
\* it has finished.
C6_OneJobPerVideo ==
    \A v \in VideoIds :
        (videos[v] # NoRow /\ ~(up.pc = "video_inserted" /\ up.vid = v)) =>
            Cardinality(JobsOf(v)) = 1

\* C7: when the retry endpoint answers 200 for a video (no upload being half
\* way), the video is queued and its latest job is queued with progress 0 and
\* no error.
C7_RetryResetsBoth ==
    [][(rt.pc = "update_video" /\ rt'.pc = "done" /\ rt'.status = 200
          /\ videos'[rt.vid] # NoRow /\ up.pc # "video_inserted") =>
            /\ videos'[rt.vid].status = "queued"
            /\ \E j \in LatestJobsIn(jobs', rt.vid) : IsReset(jobs'[j])]_vars

\* C8: a job's progress never decreases except by a retry, and it is 100
\* whenever the status is done.
C8_ProgressMonotonic ==
    [][\A j \in JobIds :
         /\ (jobs[j] # NoRow /\ jobs'[j].progress < jobs[j].progress) =>
                RetryWritesJob(j)
         /\ (jobs'[j] # NoRow /\ jobs'[j].status = "done") =>
                jobs'[j].progress = 100]_vars


----------------------------------------------------------------------------
(* Properties of the approval flow *)

HasCoords(row) == ~IsNull(row.latitude) /\ ~IsNull(row.longitude)
NewPins == pins' \ pins
BatchResolved == ap.pc = "tasks" /\ \A c \in DOMAIN tasks : tasks[c].pc = "done"
ApproveAnswers(status) == BatchResolved /\ ap'.pc = "done" /\ ap'.status = status

\* C1: every pin row has a latitude and a longitude, and a pin built from a
\* candidate got its coordinates from a places lookup or from the stored
\* coordinates of that candidate; a candidate with neither never becomes a pin.
C1_NoPinWithoutCoords ==
    \A p \in pins :
       /\ ~IsNull(p.latitude) /\ ~IsNull(p.longitude)
       /\ p.latitude # NaN /\ p.longitude # NaN
       /\ p.origin # 0 => p.lookup \/ HasCoords(candidates[p.origin])

\* An approval of both candidates of video 1 answered 200: the one with stored
\* coordinates became the only pin, the one without (no place found) did not.
C1_Witness ==
    /\ ap.pc = "done" /\ ap.status = 200 /\ ap.createdPinCount = 1
    /\ ~IsNull(candidates[1].places_query) /\ ~IsNull(candidates[2].places_query)
    /\ ~HasCoords(candidates[2])
    /\ {p.origin : p \in pins} = {1}

Resolved == {c \in DOMAIN tasks : ~IsNull(tasks[c].place) \/ HasCoords(candidates[c])}

C9_LackingCoordsRejected ==
    [][/\ (/\ BatchResolved /\ ap'.pc = "done"
           /\ \E c \in DOMAIN tasks : IsNull(tasks[c].pin)) => ap'.status = 400
       /\ (served' # served /\ pr'.status = 201) =>
              \A p \in NewPins : p.origin # 0 => HasCoords(candidates[p.origin])]_vars

\* C10: in a batch over a video with a location hint the geocoder is called
\* exactly once, and all places searches of the batch use the same bias point.
C10_GeocodedOnce ==
    (/\ ap.pc = "tasks" /\ env.apiKey /\ ~IsNull(ap.locationHint)
     /\ DOMAIN tasks # {} /\ AllBegun) =>
        /\ geocodeCalls = 1
        /\ \A c, d \in DOMAIN tasks :
              (tasks[c].pc \in {"place", "update", "done"}
                  /\ tasks[d].pc \in {"place", "update", "done"}) =>
                 tasks[c].locationBias = tasks[d].locationBias

\* C11: a failing places or geocoding call of one candidate does not abort the
\* batch: an approval only ends in an error when every callback has returned
\* (the error then comes from the insert of the pins).
C11_ErrorsDoNotAbort ==
    [][(ap.pc = "tasks" /\ ap'.pc = "done" /\ ap'.status # 200) => BatchResolved]_vars

\* The update of candidate c sent by its callback is applied in this step.
TaskWrites(c) ==
    /\ c \in DOMAIN tasks
    /\ tasks[c].pc = "update"
    /\ candidates'[c] # candidates[c]

\* C12: when the places lookup of a candidate found no place, the write of its
\* callback leaves the coordinates and the stored place id, name, address and
\* payload of the row as they were and sets places_failed.
C12_FailureKeepsAndMarks ==
    [][\A c \in CandIds :
         (TaskWrites(c) /\ IsNull(tasks[c].place)) =>
            /\ candidates'[c].latitude = candidates[c].latitude
            /\ candidates'[c].longitude = candidates[c].longitude
            /\ candidates'[c].places_place_id = candidates[c].places_place_id
            /\ candidates'[c].places_name = candidates[c].places_name
            /\ candidates'[c].places_address = candidates[c].places_address
            /\ candidates'[c].places_raw = candidates[c].places_raw
            /\ candidates'[c].places_failed]_vars

\* C13: when the places lookup of a candidate found a place, the write of its
\* callback stores the place id, name, address, payload and the coordinates of
\* that place on the row and clears places_failed.
C13_SuccessPersistsPlace ==
    [][\A c \in CandIds :
         (TaskWrites(c) /\ ~IsNull(tasks[c].place)) =>
            LET place == Val(tasks[c].place)
            IN  /\ candidates'[c].places_place_id = Some(place.place_id)
                /\ candidates'[c].places_name = place.name
                /\ candidates'[c].places_address = place.address
                /\ candidates'[c].places_raw = place.raw
                /\ candidates'[c].latitude = Some(place.location.lat)
                /\ candidates'[c].longitude = Some(place.location.lng)
                /\ ~candidates'[c].places_failed]_vars

\* The callback of candidate c calls fetchPlaceForCandidate in this step.
CallsPlaces(c) ==
    /\ c \in DOMAIN tasks /\ c \in DOMAIN tasks'
    /\ tasks[c].pc \in {"init", "geocode"}
    /\ tasks'[c].pc = "place"

\* The point the geocoding of the hint gave to the callback that calls.
BiasPoint(c) ==
    IF IsNull(normalizeHint(videos[ap.vid].location_hint)) \/ tasks[c].pc = "init"
    THEN Null
    ELSE locationCache'[Val(normalizeHint(videos[ap.vid].location_hint))]

\* C14: a places search request has the location of the bias point and radius
\* 50000 when the video has a location hint whose geocoding returned a point,
\* and has neither parameter when there is no hint (none, or nothing left of
\* it after trimming) or its geocoding returned nothing.
C14_LocationBiasLaw ==
    [][\A c \in CandIds :
         (CallsPlaces(c) /\ ~IsNull(tasks'[c].url)) =>
            LET url == Val(tasks'[c].url)
            IN  IF IsNull(BiasPoint(c))
                THEN IsNull(url.location) /\ IsNull(url.radius)
                ELSE /\ url.location = Some(<<Val(BiasPoint(c)).lat,
                                              Val(BiasPoint(c)).lng>>)
                     /\ url.radius = Some(50000)]_vars

\* In one batch over a video with a hint, one search goes out with the bias
\* point and radius and another, whose geocoding gave nothing, without them.
C14_Witness ==
    \E c, d \in DOMAIN tasks :
       /\ tasks[c].pc = "place" /\ ~IsNull(tasks[c].url)
       /\ Val(tasks[c].url).location = Some(<<3, 3>>)
       /\ Val(tasks[c].url).radius = Some(PLACES_BIAS_RADIUS_METERS)
       /\ tasks[d].pc = "place" /\ ~IsNull(tasks[d].url)
       /\ IsNull(Val(tasks[d].url).location) /\ IsNull(Val(tasks[d].url).radius)

----------------------------------------------------------------------------
(* Properties of the text functions *)

\* t is s without the white space at its two ends.
IsTrimOf(t, s) ==
    /\ t # <<>> => (t[1] \notin WhiteSpace /\ t[Len(t)] \notin WhiteSpace)
    /\ \E i \in 0..Len(s) :
          /\ i + Len(t) <= Len(s)
          /\ SubSeq(s, i + 1, i + Len(t)) = t
          /\ \A k \in 1..Len(s) : (k <= i \/ k > i + Len(t)) => s[k] \in WhiteSpace

Stripped(s) == CHOOSE t \in Texts : IsTrimOf(t, s)
TextOf(x) == IF x = Null \/ x = Undefined THEN <<>> ELSE Val(x)
Glue(x, y) == IF x = <<>> THEN y ELSE IF y = <<>> THEN x ELSE x \o <<",", " ">> \o y

\* C15: buildPlaceQuery gives the name, the address hint and the location
\* hint, each without the white space at its ends, in that order and joined by
\* ", ", leaving out the parts that are null, undefined or empty after
\* trimming; the two examples of the specification come out as stated (a word
\* group of an example is written as one character).
C15_BuildPlaceQuery ==
    /\ (call.fn = "buildPlaceQuery" /\ ~IsNull(call.result)) =>
          Val(call.result) = Glue(Glue(Stripped(call.candidateName),
                                       Stripped(TextOf(call.addressHint))),
                                  Stripped(TextOf(call.locationHint)))
    /\ buildPlaceQuery(<<"Example Cafe">>, Some(<<"Market St">>),
                       Some(<<"Chicago", ",", " ", "IL">>))
          = <<"Example Cafe", ",", " ", "Market St", ",", " ",
              "Chicago", ",", " ", "IL">>
    /\ buildPlaceQuery(<<"Example Cafe">>, Null, Null) = <<"Example Cafe">>

\* A name with white space around it, a blank address hint and a location
\* hint: the query is the trimmed name and the hint.
C15_Witness ==
    /\ call.fn = "buildPlaceQuery"
    /\ call.candidateName = <<" ", "a">>
    /\ call.addressHint = Some(<<"\t">>)
    /\ call.locationHint = Some(<<"a", " ">>)
    /\ call.result = Some(<<"a", ",", " ", "a">>)

----------------------------------------------------------------------------
(* Further properties of the approval flow *)

\* C16: no step of an approval request, on the videos route or on the pins
\* route, changes a field of a candidate row.
C16_ApprovalReadsOnly ==
    [][candidates' = candidates]_vars

\* C17: a pin created from a candidate is in the trip of that candidate's
\* video, and a pin created by an approval of a video comes from a candidate
\* of that video.
C17_PinInOwningTrip ==
    [][\A p \in NewPins :
         p.origin # 0 =>
            /\ p.trip_id = videos[candidates[p.origin].video_id].trip_id
            /\ (ap.pc = "tasks" /\ ap'.pc = "done") =>
                  candidates[p.origin].video_id = ap.vid]_vars

\* An approval of video 2 has created the pin of its candidate in trip t2.
C17_Witness ==
    /\ ap.pc = "done" /\ ap.status = 200 /\ ap.createdPinCount = 1
    /\ \E p \in pins : /\ p.id \in ap.created /\ p.origin = 3
                       /\ candidates[3].video_id = 2
                       /\ p.trip_id = "t2" /\ videos[2].trip_id = "t2"

----------------------------------------------------------------------------
(* Properties of the transcript reads *)

\* C18: a read of the transcript of a video that has transcript rows, with no
\* failure of the data base, is answered 200 with the transcript of the row
\* whose created_at is greatest, on each of the three routes.
C18_LatestTranscriptWins ==
    [][(/\ rd' # rd /\ ~rd'.fault
        /\ rd'.vid \in StoredVideos /\ TranscriptsOf(rd'.vid) # {}) =>
          LET latest == Val(LatestTranscript(rd'.vid)).transcript
          IN  /\ rd'.status = 200
              /\ rd'.route \in {"video", "debug"} => rd'.transcript = Some(latest)
              /\ rd'.route \in {"debug", "txt"} =>
                    rd'.text = Some(transcriptText(latest))]_vars

\* The row of candidate c holds, after this step, the outcome its callback has.
OutcomeStored(c) ==
    ApplyUpdate(candidates'[c], debugUpdate(tasks[c])) = candidates'[c]

\* The callback of candidate c ends in this step: it returns or it throws.
CallbackEnds(c) ==
    /\ c \in DOMAIN tasks
    /\ tasks[c].pc \in {"geocode", "place", "update"}
    /\ c \in DOMAIN tasks' => tasks'[c].pc \in {"done", "thrown"}

\* C19: when the callback of a candidate ends, with a place or without one,
\* the row of the candidate holds places_query and the place id, name, address
\* and payload of the lookup; and when the pins of a batch are inserted every
\* row of the batch holds them.
C19_OutcomePersistedFirst ==
    [][/\ \A c \in CandIds : CallbackEnds(c) => OutcomeStored(c)
       /\ (ap.pc = "tasks" /\ pins' # pins) =>
             \A c \in DOMAIN tasks : OutcomeStored(c)]_vars

\* The status of job j becomes failed in this step.
JobFails(j) ==
    /\ jobs[j] # NoRow
    /\ jobs[j].status # "failed"
    /\ jobs'[j].status = "failed"

\* C20: a job becomes failed only from processing, with its progress as it was
\* and an error recorded; and the row of a failed job is only changed by a
\* retry.
C20_FailureRecorded ==
    [][\A j \in JobIds :
         /\ JobFails(j) => /\ jobs[j].status = "processing"
                           /\ jobs'[j].progress = jobs[j].progress
                           /\ ~IsNull(jobs'[j].error)
         /\ (jobs[j] # NoRow /\ jobs[j].status = "failed" /\ jobs'[j] # jobs[j]) =>
               RetryWritesJob(j)]_vars

----------------------------------------------------------------------------
(* Properties of the worker's run *)

\* The generative pass was attempted and did not end well.
GenerativeFailed == run.attempt \in GenerativeOutcomes \ {"ok"}

\* C21: when the generative pass is attempted and fails, the step records a
\* fallback reason and leaves the job processing; the candidates saved
\* afterwards are exactly the merged heuristic ones, none of them generative;
\* and no job becomes failed in the generative stage.
C21_GenerativeFailsSoft ==
    [][/\ GenerativeFailed' =>
             /\ ~IsNull(pjob'.ollama_fallback_reason)
             /\ ~IsNull(stored'.candidates) =>
                   /\ Val(stored'.candidates) = MergeCandidates(run'.heuristic, <<>>)
                   /\ \A i \in 1..Len(Val(stored'.candidates)) :
                         Val(stored'.candidates)[i].method = "heuristic"
       /\ (run.stage = "generative" /\ run'.stage # "generative") =>
             pjob'.status = "processing"
       /\ (pjob.status # "failed" /\ pjob'.status = "failed") =>
             run.stage # "generative"]_vars

\* A run whose generative pass failed the schema has ended done with its
\* heuristic candidate saved.
C21_Witness ==
    /\ run.stage = "ended" /\ pjob.status = "done" /\ pjob.progress = 100
    /\ run.attempt = "schema"
    /\ pjob.ollama_fallback_reason = Some("schema")
    /\ ~IsNull(stored.candidates) /\ Len(Val(stored.candidates)) = 1
    /\ Val(stored.candidates) = run.heuristic

\* C22: Candidate Extraction has not begun unless the Transcriber and the
\* Frame Text Reader have both completed and persisted their output, and place
\* resolution has not begun unless the candidates are persisted.
C22_StagesInOrder ==
    /\ run.stage \in {"heuristic", "generative", "merge", "resolve"} =>
          /\ run.transcriber = "done" /\ run.reader = "done"
          /\ stored.transcript /\ stored.frames
    /\ run.stage = "resolve" => ~IsNull(stored.candidates)

\* Place resolution has begun in a run whose Frame Text Reader completed
\* before its Transcriber.
C22_Witness ==
    /\ run.stage = "resolve" /\ run.first = "reader"
    /\ run.transcriber = "done" /\ ~IsNull(stored.candidates)

\* The candidates both passes handed to the merge, and those of them that
\* have the name of candidate m up to letter case and whitespace.
Extracted == run.heuristic \o run.generative
Duplicates(m) == {i \in 1..Len(Extracted) : SameName(Extracted[i], m)}

\* C23: the saved candidates hold no two names that are equal after case
\* folding and whitespace normalisation; each stands for the extracted
\* candidates of its name, with the highest of their confidences and the union
\* of their evidence; every extracted name is saved; and the list is ordered
\* by confidence descending.
C23_DedupLaw ==
    /\ NameKey(<<"A", " ", " ", "B", " ">>) = NameKey(<<"a", " ", "b">>)
    /\ ~IsNull(stored.candidates) =>
          LET merged == Val(stored.candidates)
          IN  /\ \A i, j \in 1..Len(merged) :
                    SameName(merged[i], merged[j]) => i = j
              /\ \A i \in 1..Len(merged) :
                    /\ Duplicates(merged[i]) # {}
                    /\ \A d \in Duplicates(merged[i]) :
                          Extracted[d].confidence <= merged[i].confidence
                    /\ \E d \in Duplicates(merged[i]) :
                          Extracted[d].confidence = merged[i].confidence
                    /\ merged[i].evidence =
                          UNION {Extracted[d].evidence : d \in Duplicates(merged[i])}
              /\ \A d \in 1..Len(Extracted) :
                    \E i \in 1..Len(merged) : SameName(merged[i], Extracted[d])
              /\ \A i, j \in 1..Len(merged) :
                    i < j => merged[i].confidence >= merged[j].confidence

\* A heuristic candidate of confidence 5 and a generative one of confidence 9
\* whose names differ by case and whitespace are saved as one, ranked before
\* a third candidate of confidence 5.
C23_Witness ==
    /\ ~IsNull(stored.candidates)
    /\ Len(run.heuristic) = 2 /\ Len(run.generative) = 1
    /\ run.heuristic[1].name = <<"c">> /\ run.heuristic[1].confidence = 5
    /\ run.heuristic[2].name = <<"a", " ", "b">> /\ run.heuristic[2].confidence = 5
    /\ run.generative[1].name = <<"A", " ", " ", "B", " ">>
    /\ run.generative[1].confidence = 9
    /\ Len(Val(stored.candidates)) = 2
    /\ Val(stored.candidates)[1].confidence = 9
    /\ Val(stored.candidates)[1].evidence = {"transcript", "ocr"}
    /\ Val(stored.candidates)[2].name = <<"c">>

\* The candidates the select of a body finds, and whether one of them blocks
\* the request: it has no coordinates, or its video is not of the trip.
FoundCandidates(ids) == {c \in CandIds : candidates[c] # NoRow /\ c \in Range(ids)}
Blocks(trip, c) ==
    \/ ~HasCoords(candidates[c])
    \/ videos[candidates[c].video_id].trip_id # trip

\* C24: a request to create pins from candidate_ids of which a found candidate
\* has no coordinates or belongs to a video of another trip is answered 400
\* and creates no pin.
C24_AllOrNothing ==
    [][\A trip \in TripIds \cup {BadUuid}, ids \in IdLists, insertOk \in BOOLEAN :
         (/\ PinsCreateFromCandidates(trip, ids, TRUE, insertOk)
          /\ \E c \in FoundCandidates(ids) : Blocks(trip, c)) =>
            /\ pr'.status = 400
            /\ pins' = pins]_vars

\* A request holding a candidate with coordinates and one without has been
\* answered 400 and no pin exists.
C24_Witness ==
    /\ served = 1 /\ pr.status = 400 /\ pr.error = Some(MissingCoordsMessage)
    /\ pins = {}
    /\ \E c \in CandIds : candidates[c].video_id = 1 /\ HasCoords(candidates[c])

----------------------------------------------------------------------------
(* Properties of the trips router *)

\* A create payload that fails the schema: user_id missing or no uuid, title
\* missing, null or empty.
PayloadInvalid(user_id, title) ==
    \/ user_id = Undefined \/ Val(user_id) \notin Users
    \/ title \in {Undefined, Null, Some(<<>>)}

\* The answer touched no trip row: no query was sent, no row changed.
NoTripTouched == ~tq'.queried /\ trips' = trips /\ nextTrip' = nextTrip

\* C25: a list request without user_id is answered 400 with data null and
\* error 'user_id is required', a create request whose payload fails the
\* schema is answered 400 with data null and an error, and neither reads,
\* creates or changes a trip row.
C25_TripValidation ==
    [][/\ \A dbOk \in BOOLEAN :
             TripsList(Undefined, dbOk) =>
                /\ tq'.status = 400 /\ tq'.data = Null
                /\ tq'.error = Some("user_id is required")
                /\ NoTripTouched
       /\ \A user_id \in UserIdInputs, title \in TitleInputs, dbOk \in BOOLEAN :
             (TripsCreate(user_id, title, dbOk) /\ PayloadInvalid(user_id, title)) =>
                /\ tq'.status = 400 /\ tq'.data = Null
                /\ ~IsNull(tq'.error)
                /\ NoTripTouched]_vars

\* With a trip stored, a create request was answered 400 and the trips table
\* holds that trip only.
C25_Witness ==
    /\ tq.route = "post" /\ tq.status = 400 /\ ~tq.queried
    /\ trips[1] # NoRow /\ nextTrip = 2

\* C26: a delete of an id that no trip has is answered 404 with error 'Trip
\* not found', and a delete is answered 204 only when a trip with the id
\* existed and is deleted.
C26_DeleteFinds ==
    [][\A id \in RequestedTrips, dbOk \in BOOLEAN :
         TripsDelete(id, dbOk) =>
            /\ (id = BadTripId \/ trips[id] = NoRow) =>
                  tq'.status = 404 /\ tq'.error = Some("Trip not found")
            /\ tq'.status = 204 =>
                  id # BadTripId /\ trips[id] # NoRow /\ trips'[id] = NoRow]_vars

----------------------------------------------------------------------------
(* A second request after an approval *)

\* The pin an approval of candidate 1 of video 1 has created from the stored
\* coordinates (the places lookup found nothing).
FirstPin ==
    PinRow(1, [trip_id |-> "t1", name |-> <<"a">>, latitude |-> Some(1),
               longitude |-> Some(1), place_id |-> <<>>,
               notes |-> <<"from video">>, origin |-> 1, lookup |-> FALSE])

\* The tables and the handler after that approval has been answered, for a
\* video 1 with the given location hint (whose geocoding gave no point).
AfterFirstApproval(hint) ==
    /\ videos = [v \in StoredVideos |->
                   [trip_id |-> IF v = 1 THEN "t1" ELSE "t2",
                    location_hint |-> IF v = 1 THEN hint ELSE Null,
                    status |-> "done"]]
    /\ candidates = [c \in CandIds |->
                       IF c = 1
                       THEN [StoredCandidate(1, TRUE) EXCEPT
                                !.places_query =
                                    Some(buildPlaceQuery(<<"a">>, Null, hint))]
                       ELSE StoredCandidate(c, c % 2 = 1)]
    /\ pins = {FirstPin}
    /\ nextPin = 2
    /\ ap = [ApproveIdle EXCEPT !.pc = "done", !.status = 200,
                                !.createdPinCount = 1, !.created = {1}]
    /\ tasks = <<>>
    /\ locationCache = IF IsNull(hint) THEN <<>>
                       ELSE [h \in {Val(hint)} |-> Null]
    /\ geocodeCalls = IF IsNull(hint) THEN 0 ELSE 1
    /\ pr = PinsIdle

InitReapprove ==
    /\ \E hint \in {Null, Some(<<"a">>)} : AfterFirstApproval(hint)
    /\ served = 0
    /\ InitJobs
    /\ InitRead
    /\ InitOther
    /\ env \in [apiKey : BOOLEAN]
    /\ call = NoCall

SpecReapprove == InitReapprove /\ [][NextApprove]_vars

\* C27: no candidate has more than one pin created from it.
C27_OnePinPerCandidate ==
    \A c \in CandIds : Cardinality({p \in pins : p.origin = c}) <= 1

----------------------------------------------------------------------------
(* Properties of the Planner page *)

\* The job status the page displays is done or failed.
DisplaysTerminal(u) == ~IsNull(u.videoJob) /\ IsTerminal(Val(u.videoJob))

\* A poll is sent in this step; a poll response is taken in this step.
PollSent == polls' \ polls # {}
ResponseTaken == polls \ polls' # {}

\* C28: polls are only sent while a video id is set; once the page displays
\* done or failed for the video no further poll is sent for it, and no poll
\* response for the video takes the displayed status back to a status that is
\* not terminal.
C28_PollingStopsAtTerminal ==
    [][/\ PollSent => ui'.videoId # 0
       /\ (PollSent /\ ui'.videoId = ui.videoId) => ~DisplaysTerminal(ui)
       /\ (ResponseTaken /\ DisplaysTerminal(ui) /\ ui'.videoId = ui.videoId) =>
             DisplaysTerminal(ui')]_vars

\* C29: the displayed and the selected candidates are candidates of the
\* current video, and the ids sent on approval are ids of candidates of the
\* video they are sent for.
C29_SelectionOfCurrentVideo ==
    /\ ui.videoCandidates \subseteq CandidatesOf(ui.videoId)
    /\ ui.selectedCandidates \subseteq CandidatesOf(ui.videoId)
    /\ ~IsNull(sent) => Val(sent).ids \subseteq CandidatesOf(Val(sent).videoId)

----------------------------------------------------------------------------
(* Properties of the upload *)

\* The upload request is answered in this step.
UploadAnswered == up.pc \in {"handler", "video_inserted"} /\ up'.pc = "done"

\* C30: when an upload is answered 400 or 500, no file, no video row and no
\* job row of the request remain; when it is answered 201, the file stored
\* under the returned video id exists and the video row of that id is queued
\* with one job, queued at progress 0.
C30_FailedUploadLeavesNothing ==
    [][UploadAnswered =>
         IF up'.status \in {400, 500}
         THEN /\ up.vid \notin files'
              /\ videos'[up.vid] = NoRow
              /\ JobsOfIn(jobs', up.vid) = {}
         ELSE /\ up'.status = 201 /\ up'.vid = up.vid
              /\ up.vid \in files'
              /\ videos'[up.vid] # NoRow /\ videos'[up.vid].status = "queued"
              /\ \E j \in JobIds :
                    /\ JobsOfIn(jobs', up.vid) = {j}
                    /\ jobs'[j].status = "queued" /\ jobs'[j].progress = 0]_vars

====
